---- MODULE Spec2Model ----
(***************************************************************************)
(* Model of qqbot's message aggregation core                               *)
(* (src/qqbot/services/message_aggregator.py) running on one asyncio event *)
(* loop.  One action is one task step: the code a coroutine runs between   *)
(* two suspension points.  All state of the aggregator is keyed by group,  *)
(* so each of its variables is a function of the group id; block ids, task *)
(* ids and message ids are local to their group.  The reply callback       *)
(* (src/qqbot/plugins/group_chat.py), the block judge and the silence      *)
(* register it uses are modelled after the aggregator.                     *)
(***************************************************************************)
EXTENDS Integers, Sequences, FiniteSets, TLC

\* ------------------------------------------------------------------ bounds
MaxMsgs == 3        \* add_message calls made over a run
MaxBlocks == 2      \* blocks handed to the reply callback over a run
NumGroups == 2      \* distinct group ids

Groups == 1..NumGroups
None == 0           \* Python None / absent dict key

\* ------------------------------------------------------- program constants
MinWait == 3        \* max(3.0, ...)
MaxWait == 10       \* min(10.0, ...)
DefaultWait == 5    \* should_wait=true without wait_seconds
ParseFailWait == 5  \* no JSON object in the response
ErrorWait == 2      \* except Exception fallback
NoWait == 0         \* should_wait=false

VARIABLES
    blocks,         \* MessageAggregator._blocks: group -> block id | None
    blockObjs,      \* the ResponseBlock instances created for a group
    tasks,          \* the asyncio tasks created for a group
    lockHolder,     \* MessageAggregator._locks: who holds the group's lock
    lockWaiters,    \* FIFO of coroutines suspended in lock.acquire()
    reply_callback, \* MessageAggregator._reply_callback is set
    calls,          \* the add_message invocations of a group, in call order
    dispatches,     \* the reply callback invocations of a group, in order
    event,          \* the event handle_group_chat was called with in the
                    \* last step (kept by IngestSpec only)
    answer,         \* the group and the response of the oracle call that
                    \* ended in the last step (kept by AnswerSpec for the
                    \* Wait-Time Oracle, by PipelineSpec for the block judge)
    _silence_states,    \* silence_mode._silence_states: group id -> bool
    runs,           \* the invocations of _process_response_block, in order
    set_call,       \* the set_silent call made in the last step
    judged          \* the run and the result of the judge_block call that
                    \* returned in the last step

aggregator_vars == <<blocks, blockObjs, tasks, lockHolder, lockWaiters,
                     reply_callback, calls, dispatches, answer, event>>
callback_vars == <<_silence_states, runs, set_call, judged>>
vars == <<blocks, blockObjs, tasks, lockHolder, lockWaiters, reply_callback,
          calls, dispatches, answer, event, _silence_states, runs, set_call,
          judged>>

NoHolder == <<"none", 0>>

\* no set_silent call was made in the last step
NoCall == [group_id |-> 0, silent |-> FALSE]

\* BlockJudgeResult.no_reply(): what judge_block returns when it fails
no_reply ==
    [should_reply |-> FALSE, reply_count |-> 0, replies |-> <<>>,
     user_complaining_too_much |-> FALSE, user_asking_to_speak |-> FALSE]

\* no judge_block call returned in the last step
NoJudgment == [run |-> 0, result |-> no_reply]

\* no oracle call ended in the last step
NoAnswer == [group |-> 0,
             resp |-> [kind |-> "none", has_sw |-> FALSE, sw |-> TRUE,
                       ws_kind |-> "missing", ws |-> 0]]

\* no event was handled in the last step
NoEvent == [group_id |-> 0, user_id |-> "", self_id |-> "", raw_message |-> <<>>,
            message |-> <<>>]

CallH(m) == <<"call", m>>
TaskH(t) == <<"task", t>>

\* faulty variant: _get_lock hands every group the lock of group 1
LocalSharedLock(g) ==
    [blk |-> blocks[g], bo |-> blockObjs[g], ts |-> tasks[g],
     lh |-> lockHolder[1], lw |-> lockWaiters[1], cs |-> calls[g],
     ds |-> dispatches[g]]

\* the state of one group, as a record the operators below transform:
\* _get_lock(group_id) and _get_block(group_id) look the group's own entries up
Local(g) ==
    [blk |-> blocks[g], bo |-> blockObjs[g], ts |-> tasks[g],
     lh |-> lockHolder[g], lw |-> lockWaiters[g], cs |-> calls[g],
     ds |-> dispatches[g]]

\* the aggregator's entries of group g become those of s, the other groups
\* keep theirs
SetGroup(g, s) ==
    /\ blocks' = [blocks EXCEPT ![g] = s.blk]
    /\ blockObjs' = [blockObjs EXCEPT ![g] = s.bo]
    /\ tasks' = [tasks EXCEPT ![g] = s.ts]
    /\ lockHolder' = [lockHolder EXCEPT ![g] = s.lh]
    /\ lockWaiters' = [lockWaiters EXCEPT ![g] = s.lw]
    /\ calls' = [calls EXCEPT ![g] = s.cs]
    /\ dispatches' = [dispatches EXCEPT ![g] = s.ds]
    /\ UNCHANGED reply_callback

\* a step of the aggregator for group g: the silence register and the
\* callbacks under way are not touched (message_aggregator.py does not import
\* silence_mode and calls the callback only by `await`)
CommitGroup(g, s) ==
    /\ SetGroup(g, s)
    /\ UNCHANGED callback_vars

\* an action of group g leaves the group in state s and the others alone
\* (s is bound once, so the handler's result is computed a single time)
Commit(g, s) ==
    \E r \in {s} :
        /\ CommitGroup(g, r)
        /\ answer' = NoAnswer
        /\ event' = NoEvent

\* ------------------------------------------------------------ ResponseBlock
\* dataclass defaults: a fresh block
ResponseBlock ==
    [messages |-> <<>>, is_processing |-> FALSE,
     wait_task |-> None, judge_wait_task |-> None]

\* faulty variant: the message is inserted at the front of the list
BlockAddMessageFront(b, m) == [b EXCEPT !.messages = <<m>> \o @]

\* ResponseBlock.add_message: self.messages.append(msg)
BlockAddMessage(b, m) == [b EXCEPT !.messages = Append(@, m)]

\* ResponseBlock.get_message_count
get_message_count(b) == Len(b.messages)

\* asyncio.Task.done()
Done(ts, t) == ts[t].st = "done"

\* asyncio.Task.cancel(): a task that is not done gets CancelledError thrown
\* into it at its next step; a finished task is left alone
Cancel(ts, t) ==
    IF t = None \/ Done(ts, t) THEN ts
    ELSE [ts EXCEPT ![t].cancel = TRUE]

\* faulty variant: the cleanup clears the group's current table entry
\* instead of the block it processed
BlockClearCurrent(s, b) ==
    [s EXCEPT !.bo[s.blk] = ResponseBlock,
              !.ts = Cancel(Cancel(@, s.bo[s.blk].wait_task),
                            s.bo[s.blk].judge_wait_task)]

\* faulty variant: clear resets the fields and cancels nothing
BlockClearNoCancel(s, b) == [s EXCEPT !.bo[b] = ResponseBlock]

\* ResponseBlock.clear applied to block b of the group
BlockClear(s, b) ==
    [s EXCEPT !.bo[b] = ResponseBlock,
              !.ts = Cancel(Cancel(@, s.bo[b].wait_task),
                            s.bo[b].judge_wait_task)]

\* MessageAggregator._get_block: create the group's block when it has none
GetBlock(s) ==
    IF s.blk = None
    THEN [s EXCEPT !.bo = Append(@, ResponseBlock), !.blk = Len(s.bo) + 1]
    ELSE s

\* ------------------------------------------------------------- asyncio.Lock
\* Lock.acquire() returns at once when the lock is free and nobody waits
LockFree(s) == s.lh = NoHolder /\ s.lw = <<>>

\* Lock.release(): the first waiter is woken and owns the lock when it runs
Release(s) ==
    IF s.lw = <<>> THEN [s EXCEPT !.lh = NoHolder]
    ELSE [s EXCEPT !.lh = Head(s.lw), !.lw = Tail(s.lw)]

RemoveFrom(q, x) == SelectSeq(q, LAMBDA y : y # x)

\* -------------------------------------------------------------------- tasks
\* A task record: st is the suspension point the coroutine is at.  "calling"
\* (judge) and "sleeping" (wait) include the time between create_task and
\* the task's first step; `wait` is the argument of the pending sleep, `pb`
\* the local processing_block, `cancel` a requested, undelivered cancellation,
\* `block` the block the task was created for.

\* asyncio.create_task(self._judge_wait_time(group_id, block))
NewJudgeTask(b) ==
    [kind |-> "judge", block |-> b, st |-> "calling", cancel |-> FALSE,
     wait |-> 0, pb |-> None]

\* asyncio.create_task(self._wait_and_process(group_id, wait_seconds))
NewWaitTask(b, w) ==
    [kind |-> "wait", block |-> b, st |-> "sleeping", cancel |-> FALSE,
     wait |-> w, pb |-> None]

\* the module is imported: the aggregator singleton is constructed and
\* plugins/group_chat.py registers its callback before any event is handled
Init ==
    /\ blocks = [g \in Groups |-> None]
    /\ blockObjs = [g \in Groups |-> <<>>]
    /\ tasks = [g \in Groups |-> <<>>]
    /\ lockHolder = [g \in Groups |-> NoHolder]
    /\ lockWaiters = [g \in Groups |-> <<>>]
    /\ reply_callback = TRUE
    /\ calls = [g \in Groups |-> <<>>]
    /\ dispatches = [g \in Groups |-> <<>>]
    /\ answer = NoAnswer
    /\ event = NoEvent
    /\ _silence_states = <<>>
    /\ runs = <<>>
    /\ set_call = NoCall
    /\ judged = NoJudgment

\* ------------------------------------------------------------- add_message
\* What `await task` hands to the add_message that waits for the task is
\* kept in the call's `awaited`: "returned" (the task returned), "cancelled"
\* (it ended with CancelledError), "none" while nothing was delivered.

\* faulty variant: the await is not wrapped in try/except CancelledError
AwaitRaisesUncaught(result) == result \in {"failed", "cancelled"}

\* `await task` inside `try: ... except asyncio.CancelledError: pass`:
\* only a task that ended with another exception makes the await raise
AwaitRaises(result) == result = "failed"

\* the await is over: its outcome has been taken
Resume(s, m) == [s EXCEPT !.cs[m].awaited = "none"]

\* add_message leaves: the `async with lock` block exits and the lock is
\* released; pc is "done" on a normal return and "raised" on an exception
AddMessageExit(s, m, pc) == Release([s EXCEPT !.cs[m].pc = pc])

\* add_message suspends in `await <cancelled task>` with the lock held
AddMessageSuspend(s, m, pc) == [s EXCEPT !.cs[m].pc = pc, !.lh = CallH(m)]

\* block.judge_wait_task = asyncio.create_task(self._judge_wait_time(...))
StartJudge(s, m, b) ==
    AddMessageExit([s EXCEPT !.ts = Append(@, NewJudgeTask(b)),
                             !.bo[b].judge_wait_task = Len(s.ts) + 1],
                   m, "done")

\* faulty variant: a new oracle call is issued without cancelling the old one
JudgePhaseNoCancel(s, m, b) == StartJudge(s, m, b)

\* if block.judge_wait_task and not block.judge_wait_task.done(): cancel, await
JudgePhase(s, m, b) ==
    LET jt == s.bo[b].judge_wait_task
    IN  IF jt # None /\ ~Done(s.ts, jt)
        THEN AddMessageSuspend([s EXCEPT !.ts = Cancel(@, jt)], m, "await_judge")
        ELSE StartJudge(s, m, b)

\* faulty variant: a pending wait timer is not cancelled by a new message
WaitPhaseNoCancel(s, m, b) == JudgePhase(s, m, b)

\* if block.wait_task and not block.wait_task.done(): cancel, await
WaitPhase(s, m, b) ==
    LET wt == s.bo[b].wait_task
    IN  IF wt # None /\ ~Done(s.ts, wt)
        THEN AddMessageSuspend([s EXCEPT !.ts = Cancel(@, wt)], m, "await_wait")
        ELSE JudgePhase(s, m, b)

\* faulty variant: a processing block is reused for the new message
TargetBlockReuse(s) == GetBlock(s)

\* the block add_message works on: _get_block, replaced by a fresh block
\* installed in _blocks when the current one is processing
TargetBlock(s) ==
    LET s0 == GetBlock(s)
    IN  IF s0.bo[s0.blk].is_processing
        THEN [s0 EXCEPT !.bo = Append(@, ResponseBlock), !.blk = Len(s0.bo) + 1]
        ELSE s0

\* add_message from the lock acquisition to its first suspension or its return
AddMessageBody(s, m) ==
    LET s1 == TargetBlock(s)
        b == s1.blk
        fresh == s.blk # None /\ s.bo[s.blk].is_processing
    IN  WaitPhase([s1 EXCEPT !.bo[b] = BlockAddMessage(@, m),
                             !.cs[m].block = b, !.cs[m].fresh = fresh], m, b)

NumCalls == LET RECURSIVE Sum(_)
                Sum(n) == IF n = 0 THEN 0 ELSE Len(calls[n]) + Sum(n - 1)
            IN  Sum(NumGroups)

\* add_message is entered for a group in state s: the lock is taken at once
\* when it is free, otherwise the caller queues behind the lock's waiters
AddMessageEnter(s) ==
    LET m == Len(s.cs) + 1
        s1 == [s EXCEPT !.cs = Append(@, [pc |-> "lockwait", block |-> None,
                                          fresh |-> FALSE,
                                          awaited |-> "none"])]
    IN  IF LockFree(s)
        THEN AddMessageBody(s1, m)
        ELSE [s1 EXCEPT !.lw = Append(@, CallH(m))]

\* a caller invokes add_message(group_id=g, ...)
AddMessageCall(g) ==
    /\ NumCalls < MaxMsgs
    /\ Commit(g, AddMessageEnter(Local(g)))

\* a queued add_message is handed the lock and runs its body
AddMessageLocked(g, m) ==
    /\ calls[g][m].pc = "lockwait"
    /\ lockHolder[g] = CallH(m)
    /\ Commit(g, AddMessageBody(Local(g), m))

\* `await block.wait_task` returns: the cancelled wait task has finished
AddMessageAfterWait(g, m) ==
    LET s == Local(g)
        b == s.cs[m].block
        wt == s.bo[b].wait_task
    IN  /\ s.cs[m].pc = "await_wait"
        /\ Done(s.ts, wt)
        /\ IF AwaitRaises(s.cs[m].awaited)
           THEN Commit(g, AddMessageExit(Resume(s, m), m, "raised"))
           ELSE Commit(g, JudgePhase(Resume(s, m), m, b))

\* `await block.judge_wait_task` returns: the cancelled oracle call has finished
AddMessageAfterJudge(g, m) ==
    LET s == Local(g)
        b == s.cs[m].block
        jt == s.bo[b].judge_wait_task
    IN  /\ s.cs[m].pc = "await_judge"
        /\ Done(s.ts, jt)
        /\ IF AwaitRaises(s.cs[m].awaited)
           THEN Commit(g, AddMessageExit(Resume(s, m), m, "raised"))
           ELSE Commit(g, StartJudge(Resume(s, m), m, b))

\* -------------------------------------------------------- _judge_wait_time
\* what the Wait-Time Oracle call can produce: the call raises ("fail"), the
\* text holds no {...} ("nojson"), json.loads raises on the {...} part
\* ("badjson"), or a JSON object ("json"). In the object should_wait may be
\* missing (has_sw) and is read for its truth value (sw); wait_seconds is
\* missing or null ("missing"), a number ("number", ws seconds) or a value
\* float() rejects ("text").
WaitSecondsValues == {1, 3, 7, 10, 12}
Responses ==
    {[kind |-> k, has_sw |-> FALSE, sw |-> TRUE, ws_kind |-> "missing", ws |-> 0] :
        k \in {"fail", "nojson", "badjson"}}
    \cup {[kind |-> "json", has_sw |-> TRUE, sw |-> TRUE, ws_kind |-> "number", ws |-> w] :
        w \in WaitSecondsValues}
    \cup {[kind |-> "json", has_sw |-> TRUE, sw |-> TRUE, ws_kind |-> k, ws |-> 0] :
        k \in {"missing", "text"}}
    \cup {[kind |-> "json", has_sw |-> FALSE, sw |-> TRUE, ws_kind |-> "number", ws |-> 7],
          [kind |-> "json", has_sw |-> FALSE, sw |-> TRUE, ws_kind |-> "missing", ws |-> 0]}
    \cup {[kind |-> "json", has_sw |-> TRUE, sw |-> FALSE, ws_kind |-> k, ws |-> 7] :
        k \in {"missing", "number", "text"}}

Max(a, b) == IF a > b THEN a ELSE b
Min(a, b) == IF a < b THEN a ELSE b

\* faulty variant: wait_seconds is handed on as the oracle gave it
ResolveWaitNoClamp(resp) ==
    CASE resp.kind = "fail" -> ErrorWait
      [] resp.kind = "badjson" -> ErrorWait
      [] resp.kind = "nojson" -> ParseFailWait
      [] OTHER ->
            LET should_wait == IF resp.has_sw THEN resp.sw ELSE TRUE
            IN  IF ~should_wait THEN NoWait
                ELSE IF resp.ws_kind = "missing" THEN DefaultWait
                ELSE IF resp.ws_kind = "text" THEN ErrorWait
                ELSE resp.ws

\* the seconds handed to _wait_and_process for an oracle outcome
ResolveWait(resp) ==
    CASE resp.kind = "fail" -> ErrorWait
      [] resp.kind = "badjson" -> ErrorWait
      [] resp.kind = "nojson" -> ParseFailWait
      [] OTHER ->
            \* result.get("should_wait", True)
            LET should_wait == IF resp.has_sw THEN resp.sw ELSE TRUE
            IN  IF ~should_wait THEN NoWait
                ELSE IF resp.ws_kind = "missing" THEN DefaultWait
                \* float(wait_time) raises: the `except Exception` branch
                ELSE IF resp.ws_kind = "text" THEN ErrorWait
                ELSE Max(MinWait, Min(MaxWait, resp.ws))

\* faulty variant: the `except Exception` branch logs and schedules nothing
JudgeScheduleNoFallback(s, j, w) ==
    IF w = ErrorWait
    THEN [s EXCEPT !.ts[j].st = "done"]
    ELSE [s EXCEPT !.ts = Append([@ EXCEPT ![j].st = "done"],
                                 NewWaitTask(s.ts[j].block, w)),
                   !.bo[s.ts[j].block].wait_task = Len(s.ts) + 1]

\* faulty variant: the should_wait=false branch schedules nothing
JudgeScheduleDropsNow(s, j, w) ==
    IF w = NoWait
    THEN [s EXCEPT !.ts[j].st = "done"]
    ELSE [s EXCEPT !.ts = Append([@ EXCEPT ![j].st = "done"],
                                 NewWaitTask(s.ts[j].block, w)),
                   !.bo[s.ts[j].block].wait_task = Len(s.ts) + 1]

\* every branch of _judge_wait_time that is not the cancellation stores a new
\* _wait_and_process task in block.wait_task (no lock is taken) and returns
JudgeSchedule(s, j, w) ==
    [s EXCEPT !.ts = Append([@ EXCEPT ![j].st = "done"],
                            NewWaitTask(s.ts[j].block, w)),
              !.bo[s.ts[j].block].wait_task = Len(s.ts) + 1]

\* the seconds _judge_wait_time can hand on, over all oracle outcomes
Outcomes == {ResolveWait(resp) : resp \in Responses}

\* the oracle call of task j ends with an answer or an exception, and the
\* branch taken hands w seconds to _wait_and_process
JudgeComplete(g, j, w) ==
    /\ tasks[g][j].kind = "judge"
    /\ tasks[g][j].st = "calling"
    /\ ~tasks[g][j].cancel
    /\ Commit(g, JudgeSchedule(Local(g), j, w))

\* the same step with the oracle's answer resp in view: the branch resp selects
\* hands ResolveWait(resp) seconds on, and `answer` keeps resp until the next
\* step
JudgeAnswer(g, j, resp) ==
    /\ tasks[g][j].kind = "judge"
    /\ tasks[g][j].st = "calling"
    /\ ~tasks[g][j].cancel
    /\ \E r \in {JudgeSchedule(Local(g), j, ResolveWait(resp))} : CommitGroup(g, r)
    /\ answer' = [group |-> g, resp |-> resp]
    /\ event' = NoEvent

\* -------------------------------------------------------- _wait_and_process
\* the coroutine returns and the task is done; nothing awaits a
\* _wait_and_process task that got this far
TaskEnd(ts, t) == [ts EXCEPT ![t].st = "done", ![t].wait = 0]

\* faulty variant: the cleanup also removes the group's entry from _blocks
\* when it still is the processed block
CleanupBodyDropsEntry(s, t) ==
    LET s1 == BlockClear(s, s.ts[t].pb)
        s2 == IF s.blk = s.ts[t].pb THEN [s1 EXCEPT !.blk = None] ELSE s1
    IN  Release([s2 EXCEPT !.ts = TaskEnd(@, t)])

\* second `async with lock`: processing_block.clear(), lock released, task ends
CleanupBody(s, t) ==
    LET s1 == BlockClear(s, s.ts[t].pb)
    IN  Release([s1 EXCEPT !.ts = TaskEnd(@, t)])

\* faulty variant: an exception of the callback ends the task, no cleanup
CleanupSkippedOnRaise(s, t, raised) ==
    IF raised THEN [s EXCEPT !.ts = TaskEnd(@, t)]
    ELSE IF LockFree(s) THEN CleanupBody(s, t)
    ELSE [s EXCEPT !.ts[t].st = "cleanupwait", !.lw = Append(@, TaskH(t))]

\* the task reaches the second `async with lock`, whether the callback
\* returned or raised (`except Exception` only logs): it enters when the lock
\* is free and nobody waits, else it queues
CleanupAcquire(s, t, raised) ==
    IF LockFree(s) THEN CleanupBody(s, t)
    ELSE [s EXCEPT !.ts[t].st = "cleanupwait", !.lw = Append(@, TaskH(t))]

\* await self._reply_callback(group_id, processing_block): the callback is
\* entered with the block
InvokeCallback(s, t, b) ==
    [s EXCEPT !.ts[t].st = "callback",
              !.ds = Append(@, [block |-> b, task |-> t,
                                msgs |-> s.bo[b].messages])]

\* faulty variant: the callback is awaited inside the first `async with lock`
FireBodyLockHeld(s, t) ==
    LET s0 == GetBlock([s EXCEPT !.ts[t].wait = 0])
        b == s0.blk
    IN  IF get_message_count(s0.bo[b]) = 0
        THEN Release([s0 EXCEPT !.ts = TaskEnd(@, t)])
        ELSE LET s1 == [s0 EXCEPT !.bo[b].is_processing = TRUE,
                                  !.ts[t].pb = b, !.lh = TaskH(t)]
             IN  IF reply_callback
                 THEN InvokeCallback(s1, t, b)
                 ELSE CleanupBody(s1, t)

\* faulty variant: the empty-block check is missing
FireBodyNoEmptyCheck(s, t) ==
    LET s0 == GetBlock([s EXCEPT !.ts[t].wait = 0])
        b == s0.blk
        s1 == Release([s0 EXCEPT !.bo[b].is_processing = TRUE, !.ts[t].pb = b])
    IN  IF reply_callback
        THEN InvokeCallback(s1, t, b)
        ELSE CleanupAcquire(s1, t, FALSE)

\* faulty variant: the block is handed over without is_processing being set
FireBodyNoFlag(s, t) ==
    LET s0 == GetBlock([s EXCEPT !.ts[t].wait = 0])
        b == s0.blk
    IN  IF get_message_count(s0.bo[b]) = 0
        THEN Release([s0 EXCEPT !.ts = TaskEnd(@, t)])
        ELSE LET s1 == Release([s0 EXCEPT !.ts[t].pb = b])
             IN  IF reply_callback
                 THEN InvokeCallback(s1, t, b)
                 ELSE CleanupAcquire(s1, t, FALSE)

\* faulty variant: without a callback the timer returns and leaves the block
FireBodyKeepsUndispatched(s, t) ==
    LET s0 == GetBlock([s EXCEPT !.ts[t].wait = 0])
        b == s0.blk
    IN  IF get_message_count(s0.bo[b]) = 0 \/ ~reply_callback
        THEN Release([s0 EXCEPT !.ts = TaskEnd(@, t)])
        ELSE InvokeCallback(Release([s0 EXCEPT !.bo[b].is_processing = TRUE,
                                               !.ts[t].pb = b]), t, b)

\* first `async with lock` of _wait_and_process, entered with the lock held
FireBody(s, t) ==
    LET s0 == GetBlock([s EXCEPT !.ts[t].wait = 0])
        b == s0.blk
    IN  IF get_message_count(s0.bo[b]) = 0
        THEN Release([s0 EXCEPT !.ts = TaskEnd(@, t)])
        ELSE LET s1 == Release([s0 EXCEPT !.bo[b].is_processing = TRUE,
                                          !.ts[t].pb = b])
             IN  IF reply_callback
                 THEN InvokeCallback(s1, t, b)
                 ELSE CleanupAcquire(s1, t, FALSE)

\* faulty variant: the timer marks the block without `async with lock`
TimerFireNoLock(g, t) ==
    /\ tasks[g][t].kind = "wait"
    /\ tasks[g][t].st = "sleeping"
    /\ ~tasks[g][t].cancel
    /\ Commit(g, FireBody(Local(g), t))

\* faulty variant: a timer whose cancellation was requested fires all the same
TimerFireIgnoresCancel(g, t) ==
    /\ tasks[g][t].kind = "wait"
    /\ tasks[g][t].st = "sleeping"
    /\ LET s == Local(g)
       IN  IF LockFree(s)
           THEN Commit(g, FireBody(s, t))
           ELSE Commit(g, [s EXCEPT !.ts[t].st = "lockwait", !.ts[t].wait = 0,
                                    !.lw = Append(@, TaskH(t))])

\* asyncio.sleep returns and the task reaches the first `async with lock`
TimerFire(g, t) ==
    /\ tasks[g][t].kind = "wait"
    /\ tasks[g][t].st = "sleeping"
    /\ ~tasks[g][t].cancel
    /\ LET s == Local(g)
       IN  IF LockFree(s)
           THEN Commit(g, FireBody(s, t))
           ELSE Commit(g, [s EXCEPT !.ts[t].st = "lockwait", !.ts[t].wait = 0,
                                    !.lw = Append(@, TaskH(t))])

\* a timer that queued for the lock is handed it
TimerLocked(g, t) ==
    /\ tasks[g][t].st = "lockwait"
    /\ ~tasks[g][t].cancel
    /\ lockHolder[g] = TaskH(t)
    /\ Commit(g, FireBody(Local(g), t))

\* the reply callback returns or raises (`except Exception` logs it); the task
\* goes on to the cleanup
CallbackReturn(g, t, raised) ==
    /\ tasks[g][t].st = "callback"
    /\ ~tasks[g][t].cancel
    /\ Commit(g, CleanupAcquire(Local(g), t, raised))

\* a task that queued for the cleanup lock is handed it
CleanupLocked(g, t) ==
    /\ tasks[g][t].st = "cleanupwait"
    /\ ~tasks[g][t].cancel
    /\ lockHolder[g] = TaskH(t)
    /\ Commit(g, CleanupBody(Local(g), t))

\* ------------------------------------------------------------ cancellation
\* CancelledError is thrown into a task at its suspension point.  A task
\* that had not started yet (started = FALSE) ends cancelled; a started
\* _judge_wait_time or _wait_and_process catches the error
\* (`except asyncio.CancelledError`) and returns without any other effect.
CancelResult(st, started) ==
    IF st \in {"calling", "sleeping"} /\ ~started THEN "cancelled" ELSE "returned"

\* a task cancelled while suspended in lock.acquire() leaves the lock's queue,
\* and passes the lock on when it had just been handed it
LeaveLock(s, t) ==
    IF s.ts[t].st \notin {"lockwait", "cleanupwait"} THEN s
    ELSE IF s.lh = TaskH(t) THEN Release(s)
    ELSE [s EXCEPT !.lw = RemoveFrom(@, TaskH(t))]

\* the add_message calls suspended in `await` on task t
Awaiting(s, t) ==
    {m \in 1..Len(s.cs) :
        \/ s.cs[m].pc = "await_wait" /\ s.bo[s.cs[m].block].wait_task = t
        \/ s.cs[m].pc = "await_judge" /\ s.bo[s.cs[m].block].judge_wait_task = t}

\* task t is done: its outcome is delivered to the call that awaits it
Deliver(s, t, result) ==
    [s EXCEPT !.ts[t].st = "done", !.ts[t].wait = 0,
              !.cs = [m \in 1..Len(s.cs) |->
                        IF m \in Awaiting(s, t)
                        THEN [s.cs[m] EXCEPT !.awaited = result]
                        ELSE s.cs[m]]]

TaskCancelled(g, t, started) ==
    /\ tasks[g][t].cancel
    /\ ~Done(tasks[g], t)
    /\ started \/ tasks[g][t].st \in {"calling", "sleeping"}
    /\ LET s == Local(g)
       IN  Commit(g, Deliver(LeaveLock(s, t), t,
                             CancelResult(s.ts[t].st, started)))

\* ------------------------------------------------------------ specification
TaskIds(g) == 1..Len(tasks[g])
CallIds(g) == 1..Len(calls[g])
BlockIds(g) == 1..Len(blockObjs[g])

\* the steps the event loop and the callback take on their own; the callback
\* raises or not as E allows
Steps(E) ==
    \/ \E g \in Groups : \E m \in CallIds(g) : AddMessageLocked(g, m)
    \/ \E g \in Groups : \E m \in CallIds(g) : AddMessageAfterWait(g, m)
    \/ \E g \in Groups : \E m \in CallIds(g) : AddMessageAfterJudge(g, m)
    \/ \E g \in Groups : \E t \in TaskIds(g) : TimerFire(g, t)
    \/ \E g \in Groups : \E t \in TaskIds(g) : TimerLocked(g, t)
    \/ \E g \in Groups : \E t \in TaskIds(g) : \E raised \in E :
          CallbackReturn(g, t, raised)
    \/ \E g \in Groups : \E t \in TaskIds(g) : CleanupLocked(g, t)
    \/ \E g \in Groups : \E t \in TaskIds(g) : \E started \in BOOLEAN :
          TaskCancelled(g, t, started)

\* every step the event loop can run: the oracle hands on a value of R, the
\* callback raises or not as E says
Internal(R, E) ==
    \/ Steps(E)
    \/ \E g \in Groups : \E j \in TaskIds(g) : \E w \in R :
          JudgeComplete(g, j, w)

Arrive == \E g \in Groups : AddMessageCall(g)

Next == Arrive \/ Internal(Outcomes, BOOLEAN)

Spec == Init /\ [][Next]_vars

\* The event loop runs every ready task, every oracle call ends (with an
\* answer or an exception) and every callback returns or raises; messages
\* arrive whenever they like.
FairSpec == Spec /\ WF_vars(Internal(Outcomes, BOOLEAN))

\* The oracle is unreachable: every call raises or returns broken JSON.
FailResponses == {r \in Responses : r.kind \in {"fail", "badjson"}}
FailOutcomes == {ResolveWait(resp) : resp \in FailResponses}
NextOracleDown == Arrive \/ Internal(FailOutcomes, BOOLEAN)
OracleDownSpec ==
    Init /\ [][NextOracleDown]_vars /\ WF_vars(Internal(FailOutcomes, BOOLEAN))

\* The reply callback is broken: every invocation raises.
NextCallbackRaises == Arrive \/ Internal(Outcomes, {TRUE})
CallbackRaisesSpec == Init /\ [][NextCallbackRaises]_vars

\* _wait_and_process(group_id, 0) is also running for group 1 from the start,
\* called directly: a timer no block refers to, so nothing ever cancels it
\* and it can fire on whatever block the group has then, an empty one too.
StrayInit ==
    /\ blocks = [g \in Groups |-> None]
    /\ blockObjs = [g \in Groups |-> <<>>]
    /\ tasks = [g \in Groups |->
                    IF g = 1 THEN <<NewWaitTask(None, NoWait)>> ELSE <<>>]
    /\ lockHolder = [g \in Groups |-> NoHolder]
    /\ lockWaiters = [g \in Groups |-> <<>>]
    /\ reply_callback = TRUE
    /\ calls = [g \in Groups |-> <<>>]
    /\ dispatches = [g \in Groups |-> <<>>]
    /\ answer = NoAnswer
    /\ event = NoEvent
    /\ _silence_states = <<>>
    /\ runs = <<>>
    /\ set_call = NoCall
    /\ judged = NoJudgment
\* ... while the oracle always answers should_wait = false and the callback returns
NextStray == Arrive \/ Internal({NoWait}, {FALSE})
StrayTimerSpec == StrayInit /\ [][NextStray]_vars

\* The aggregator on its own: MessageAggregator() was constructed and
\* set_reply_callback was never called, so no step enters or leaves a
\* callback, and a timer that queues for the lock is never handed it (the
\* lock is then held by an add_message, which cancels the block's timer).
NoCallbackInit ==
    /\ blocks = [g \in Groups |-> None]
    /\ blockObjs = [g \in Groups |-> <<>>]
    /\ tasks = [g \in Groups |-> <<>>]
    /\ lockHolder = [g \in Groups |-> NoHolder]
    /\ lockWaiters = [g \in Groups |-> <<>>]
    /\ reply_callback = FALSE
    /\ calls = [g \in Groups |-> <<>>]
    /\ dispatches = [g \in Groups |-> <<>>]
    /\ answer = NoAnswer
    /\ event = NoEvent
    /\ _silence_states = <<>>
    /\ runs = <<>>
    /\ set_call = NoCall
    /\ judged = NoJudgment
NextNoCallback ==
    \/ Arrive
    \/ \E g \in Groups : \E m \in CallIds(g) : AddMessageLocked(g, m)
    \/ \E g \in Groups : \E m \in CallIds(g) : AddMessageAfterWait(g, m)
    \/ \E g \in Groups : \E m \in CallIds(g) : AddMessageAfterJudge(g, m)
    \/ \E g \in Groups : \E j \in TaskIds(g) : \E w \in Outcomes :
          JudgeComplete(g, j, w)
    \/ \E g \in Groups : \E t \in TaskIds(g) : TimerFire(g, t)
    \/ \E g \in Groups : \E t \in TaskIds(g) : \E started \in BOOLEAN :
          TaskCancelled(g, t, started)
NoCallbackSpec == NoCallbackInit /\ [][NextNoCallback]_vars

\* The aggregator with every oracle answer in view.
Answers == \E g \in Groups : \E j \in TaskIds(g) : \E resp \in Responses :
              JudgeAnswer(g, j, resp)
NextAnswer == Arrive \/ Steps(BOOLEAN) \/ Answers
AnswerSpec == Init /\ [][NextAnswer]_vars

\* ------------------------------------------------------------- silence_mode
\* is_silent: _silence_states.get(group_id, False)
is_silent(states, group_id) ==
    IF group_id \in DOMAIN states THEN states[group_id] ELSE FALSE

\* faulty variant: one flag for all groups that have an entry
set_silentShared(states, group_id, silent) ==
    [h \in DOMAIN states \cup {group_id} |-> silent]

\* set_silent: _silence_states[group_id] = silent
set_silent(states, group_id, silent) ==
    [h \in DOMAIN states \cup {group_id} |->
        IF h = group_id THEN silent ELSE states[h]]

\* -------------------------------------------------- BlockJudger.judge_block
\* the reply plans of a judgment, each plan named by a number
PlannedReplies == {<<>>, <<1>>, <<2, 1>>}
JudgeKeys == {"should_reply", "reply_count", "replies",
              "user_complaining_too_much", "user_asking_to_speak"}

\* the JSON objects the Block Judgment Oracle may answer with: `keys` are the
\* keys present.  Every combination of the two feedback flags comes with a
\* judgment that plans no reply and with one that plans one; the other
\* combinations of should_reply, reply_count and replies come without flags;
\* two objects lack keys.
JudgeObject(keys, sr, rc, rp, c, a) ==
    [keys |-> keys, should_reply |-> sr, reply_count |-> rc, replies |-> rp,
     user_complaining_too_much |-> c, user_asking_to_speak |-> a]
JudgeData ==
    {JudgeObject(JudgeKeys, FALSE, 0, <<>>, c, a) : c \in BOOLEAN, a \in BOOLEAN}
    \cup {JudgeObject(JudgeKeys, TRUE, 1, <<1>>, c, a) : c \in BOOLEAN, a \in BOOLEAN}
    \cup {JudgeObject(JudgeKeys, sr, rc, rp, FALSE, FALSE) :
            sr \in BOOLEAN, rc \in {0, 1}, rp \in PlannedReplies}
    \cup {JudgeObject(k, TRUE, 1, <<1>>, TRUE, TRUE) :
            k \in {{}, {"should_reply", "replies"}}}

\* what the oracle call of judge_block can produce: an exception ("fail"),
\* text without a parseable {...} ("nojson", "badjson") or a JSON object
JudgeResponses ==
    {[kind |-> k, data |-> CHOOSE d \in JudgeData : d.keys = {}] :
        k \in {"fail", "nojson", "badjson"}}
    \cup {[kind |-> "json", data |-> d] : d \in JudgeData}

\* BlockJudgeResult.from_dict: data.get(key, default) for every field
from_dict(data) ==
    [should_reply |->
        IF "should_reply" \in data.keys THEN data.should_reply ELSE FALSE,
     reply_count |->
        IF "reply_count" \in data.keys THEN data.reply_count ELSE 0,
     replies |->
        IF "replies" \in data.keys THEN data.replies ELSE <<>>,
     user_complaining_too_much |->
        IF "user_complaining_too_much" \in data.keys
        THEN data.user_complaining_too_much ELSE FALSE,
     user_asking_to_speak |->
        IF "user_asking_to_speak" \in data.keys
        THEN data.user_asking_to_speak ELSE FALSE]

\* faulty variant: user_asking_to_speak is not acted on
judge_blockNoExit(states, group_id, resp) ==
    IF resp.kind # "json"
    THEN [result |-> no_reply, states |-> states, call |-> NoCall]
    ELSE LET result == from_dict(resp.data)
         IN  IF group_id # 0 /\ result.user_complaining_too_much
             THEN [result |-> result,
                   states |-> set_silent(states, group_id, TRUE),
                   call |-> [group_id |-> group_id, silent |-> TRUE]]
             ELSE [result |-> result, states |-> states, call |-> NoCall]

\* faulty variant: a judgment that failed silences the group
judge_blockSilentOnFailure(states, group_id, resp) ==
    IF resp.kind # "json"
    THEN [result |-> no_reply, states |-> set_silent(states, group_id, TRUE),
          call |-> [group_id |-> group_id, silent |-> TRUE]]
    ELSE LET result == from_dict(resp.data)
         IN  IF group_id # 0 /\ result.user_complaining_too_much
             THEN [result |-> result,
                   states |-> set_silent(states, group_id, TRUE),
                   call |-> [group_id |-> group_id, silent |-> TRUE]]
             ELSE IF group_id # 0 /\ result.user_asking_to_speak
             THEN [result |-> result,
                   states |-> set_silent(states, group_id, FALSE),
                   call |-> [group_id |-> group_id, silent |-> FALSE]]
             ELSE [result |-> result, states |-> states, call |-> NoCall]

\* faulty variant: a judgment that failed asks for one reply
judge_blockReplyOnFailure(states, group_id, resp) ==
    IF resp.kind # "json"
    THEN [result |-> [no_reply EXCEPT !.should_reply = TRUE, !.reply_count = 1,
                                      !.replies = <<1>>],
          states |-> states, call |-> NoCall]
    ELSE LET result == from_dict(resp.data)
         IN  IF group_id # 0 /\ result.user_complaining_too_much
             THEN [result |-> result,
                   states |-> set_silent(states, group_id, TRUE),
                   call |-> [group_id |-> group_id, silent |-> TRUE]]
             ELSE IF group_id # 0 /\ result.user_asking_to_speak
             THEN [result |-> result,
                   states |-> set_silent(states, group_id, FALSE),
                   call |-> [group_id |-> group_id, silent |-> FALSE]]
             ELSE [result |-> result, states |-> states, call |-> NoCall]

\* judge_block from the oracle's response on: the result returned, the
\* silence register left behind and the set_silent call made on the way
judge_block(states, group_id, resp) ==
    IF resp.kind # "json"
    THEN [result |-> no_reply, states |-> states, call |-> NoCall]
    ELSE LET result == from_dict(resp.data)
         IN  IF group_id # 0 /\ result.user_complaining_too_much
             THEN [result |-> result,
                   states |-> set_silent(states, group_id, TRUE),
                   call |-> [group_id |-> group_id, silent |-> TRUE]]
             ELSE IF group_id # 0 /\ result.user_asking_to_speak
             THEN [result |-> result,
                   states |-> set_silent(states, group_id, FALSE),
                   call |-> [group_id |-> group_id, silent |-> FALSE]]
             ELSE [result |-> result, states |-> states, call |-> NoCall]

\* ------------------------------------------------- _process_response_block
\* a call the callback makes: the block judge ("judge"), the response
\* generation for a plan ("generate"), bot.send_group_msg ("send") and
\* GroupMessageService.save_message ("save") for the response to that plan
Event(op, plan) == [op |-> op, plan |-> plan]

\* the blocks the callback may be handed
HandedBlocks ==
    {ResponseBlock, [ResponseBlock EXCEPT !.messages = <<1>>, !.is_processing = TRUE]}

\* the callback has returned, normally ("done") or through its
\* `except Exception` ("failed"); its locals are gone
Returned(how) ==
    [group_id |-> 0, pc |-> how, replies |-> <<>>, i |-> 0, log |-> <<>>]

\* the callback up to its first oracle call: an empty block is skipped; the
\* names and the context are fetched (an exception there ends the callback in
\* its `except Exception`), then judge_block is called.  _bot_instance is
\* set: handle_group_chat stores it before it calls add_message.
NewRun(group_id, block, db_ok) ==
    IF get_message_count(block) = 0 THEN Returned("done")
    ELSE IF ~db_ok THEN Returned("failed")
    ELSE [group_id |-> group_id, pc |-> "judge", replies |-> <<>>, i |-> 0,
          log |-> <<Event("judge", 0)>>]

\* the generation for the i-th reply plan is called
Generate(r, i) ==
    [r EXCEPT !.pc = "generate", !.i = i,
              !.log = Append(@, Event("generate", r.replies[i]))]

\* faulty variant: the early exit looks at reply_count only
AfterJudgeCountOnly(r, result) ==
    IF result.reply_count = 0 \/ Len(result.replies) = 0
    THEN Returned("done")
    ELSE Generate([r EXCEPT !.replies = result.replies], 1)

\* judge_block has returned: the early exit, or the loop over the plans
AfterJudge(r, result) ==
    IF ~result.should_reply \/ result.reply_count = 0
    THEN Returned("done")
    ELSE IF Len(result.replies) = 0
    THEN Returned("done")
    ELSE Generate([r EXCEPT !.replies = result.replies], 1)

\* a step of the callback leaves the aggregator alone
CommitRun(r, run) ==
    /\ runs' = [runs EXCEPT ![r] = run]
    /\ UNCHANGED aggregator_vars

\* the aggregator hands a block of group g to the callback (group ids are
\* interchangeable here: the k-th block is for one of the first k groups)
ProcessStart(g, block, db_ok) ==
    /\ Len(runs) < MaxBlocks
    /\ g <= Len(runs) + 1
    /\ runs' = Append(runs, NewRun(g, block, db_ok))
    /\ set_call' = NoCall
    /\ judged' = NoJudgment
    /\ UNCHANGED <<_silence_states, aggregator_vars>>

\* the oracle call of judge_block ends and judge_block returns
JudgeReturn(r, resp) ==
    /\ runs[r].pc = "judge"
    /\ \E out \in {judge_block(_silence_states, runs[r].group_id, resp)} :
          /\ CommitRun(r, AfterJudge(runs[r], out.result))
          /\ _silence_states' = out.states
          /\ set_call' = out.call
          /\ judged' = [run |-> r, result |-> out.result]

\* a step of the callback after the judgment: no judge_block, no set_silent
ReplyStep(r, run) ==
    /\ CommitRun(r, run)
    /\ set_call' = NoCall
    /\ judged' = NoJudgment
    /\ UNCHANGED _silence_states

\* generate_response returns (its own failures give the fallback text): the
\* response is sent
GenerateReturn(r) ==
    /\ runs[r].pc = "generate"
    /\ ReplyStep(r, [runs[r] EXCEPT !.pc = "send",
                        !.log = Append(@, Event("send", runs[r].replies[runs[r].i]))])

\* send_group_msg returns and the response is saved, or it raises and the
\* callback ends in its `except Exception`
SendReturn(r, ok) ==
    /\ runs[r].pc = "send"
    /\ IF ok
       THEN ReplyStep(r, [runs[r] EXCEPT !.pc = "save",
                             !.log = Append(@, Event("save", runs[r].replies[runs[r].i]))])
       ELSE ReplyStep(r, Returned("failed"))

\* save_message and commit return (a failure is logged and ignored): sleep a
\* second when more plans follow, otherwise the callback is done
SaveReturn(r) ==
    /\ runs[r].pc = "save"
    /\ IF runs[r].i < Len(runs[r].replies)
       THEN ReplyStep(r, [runs[r] EXCEPT !.pc = "sleep"])
       ELSE ReplyStep(r, Returned("done"))

\* asyncio.sleep(1.0) returns: the next plan
SleepReturn(r) ==
    /\ runs[r].pc = "sleep"
    /\ ReplyStep(r, Generate(runs[r], runs[r].i + 1))

RunIds == 1..Len(runs)

NextReply ==
    \/ \E g \in Groups : \E block \in HandedBlocks : \E db_ok \in BOOLEAN :
          ProcessStart(g, block, db_ok)
    \/ \E r \in RunIds : \E resp \in JudgeResponses : JudgeReturn(r, resp)
    \/ \E r \in RunIds : GenerateReturn(r)
    \/ \E r \in RunIds : \E ok \in BOOLEAN : SendReturn(r, ok)
    \/ \E r \in RunIds : SaveReturn(r)
    \/ \E r \in RunIds : SleepReturn(r)

\* The reply callback and the silence register on their own: blocks are handed
\* over at any time and the callbacks run side by side.
ReplySpec == Init /\ [][NextReply]_vars

\* ----------------------------------------------------------------- pipeline
\* The aggregator with _process_response_block as its reply callback, as
\* plugins/group_chat.py registers it.  A run is appended to `runs` in the
\* step that hands its block over and is taken out of `runs` when the
\* callback returns to _wait_and_process, so `runs` holds the callbacks under
\* way, and those of a group are in the order of the group's tasks that sit
\* in the callback.

\* the dispatches of g whose callback has not returned, and their runs
LiveDispatches(g) ==
    {i \in 1..Len(dispatches[g]) : tasks[g][dispatches[g][i].task].st = "callback"}
RunsOf(g) == {r \in RunIds : runs[r].group_id = g}

\* the task that awaits run r of group g
TaskOf(g, r) ==
    LET k == Cardinality({x \in RunsOf(g) : x < r})
        i == CHOOSE i \in LiveDispatches(g) :
                Cardinality({x \in LiveDispatches(g) : x < i}) = k
    IN  dispatches[g][i].task

\* run r of group g returns and _wait_and_process goes on to its cleanup in the
\* same step (_process_response_block catches every Exception, so nothing is
\* raised into the aggregator).  `states` is the silence register the callback
\* leaves, resp the answer of the oracle call that ended in this step.
RunReturn(g, r, states, resp) ==
    /\ _silence_states' = states
    /\ UNCHANGED <<set_call, judged, event>>
    /\ answer' = resp
    /\ runs' = SubSeq(runs, 1, r - 1) \o SubSeq(runs, r + 1, Len(runs))
    /\ \E s \in {CleanupAcquire(Local(g), TaskOf(g, r), FALSE)} : SetGroup(g, s)

\* a step of _wait_and_process that may hand a block over: the callback runs
\* up to its judge_block call, or fails before it (db_ok = FALSE) and is then
\* about to return
Handover(g, s, db_ok) ==
    \E r \in {s} :
        /\ SetGroup(g, r)
        /\ answer' = NoAnswer
        /\ UNCHANGED <<_silence_states, set_call, judged, event>>
        /\ runs' = IF Len(r.ds) > Len(dispatches[g])
                   THEN Append(runs,
                               [NewRun(g, r.bo[r.ds[Len(r.ds)].block], db_ok)
                                   EXCEPT !.group_id = g])
                   ELSE runs

\* asyncio.sleep returns and the task reaches the first `async with lock`
PipelineTimerFire(g, t, db_ok) ==
    /\ tasks[g][t].kind = "wait"
    /\ tasks[g][t].st = "sleeping"
    /\ ~tasks[g][t].cancel
    /\ LET s == Local(g)
       IN  IF LockFree(s)
           THEN Handover(g, FireBody(s, t), db_ok)
           ELSE /\ ~db_ok
                /\ Commit(g, [s EXCEPT !.ts[t].st = "lockwait", !.ts[t].wait = 0,
                                       !.lw = Append(@, TaskH(t))])

\* a timer that queued for the lock is handed it
PipelineTimerLocked(g, t, db_ok) ==
    /\ tasks[g][t].st = "lockwait"
    /\ ~tasks[g][t].cancel
    /\ lockHolder[g] = TaskH(t)
    /\ Handover(g, FireBody(Local(g), t), db_ok)

\* the callback that failed before its judge_block call returns
PipelineFailed(g, r) ==
    /\ runs[r].group_id = g
    /\ runs[r].pc = "failed"
    /\ RunReturn(g, r, _silence_states, NoAnswer)

\* the oracle call of judge_block ends, judge_block returns a judgment that
\* plans no reply and the callback returns
PipelineJudgeReturn(g, r, resp) ==
    /\ runs[r].group_id = g
    /\ runs[r].pc = "judge"
    /\ \E out \in {judge_block(_silence_states, g, resp)} :
          /\ AfterJudge(runs[r], out.result) = Returned("done")
          /\ RunReturn(g, r, out.states, [group |-> g, resp |-> resp])

\* the oracle answers this specification draws from: the Wait-Time Oracle
\* says "don't wait" or fails (the seconds waited change nothing else); the
\* Block Judgment Oracle fails, answers without JSON, or answers with any
\* combination of the feedback flags and no reply, so that a callback ends
\* with its judgment (the steps that follow a judgment are in ReplySpec)
PipelineWaits == {NoWait, ErrorWait}
PipelineJudgments ==
    {resp \in JudgeResponses :
        \/ resp.kind \in {"fail", "nojson"}
        \/ /\ resp.kind = "json"
           /\ resp.data.keys = JudgeKeys
           /\ resp.data.replies = <<>>
           /\ ~resp.data.should_reply
           /\ resp.data.reply_count = 0}

\* a message arrives (group ids are interchangeable: a group gets its first
\* message after the groups with smaller ids got theirs)
PipelineArrive ==
    \E g \in Groups :
        /\ IF g = 1 THEN TRUE ELSE calls[g - 1] # <<>>
        /\ AddMessageCall(g)

NextPipeline ==
    \/ PipelineArrive
    \/ \E g \in Groups : \E m \in CallIds(g) : AddMessageLocked(g, m)
    \/ \E g \in Groups : \E m \in CallIds(g) : AddMessageAfterWait(g, m)
    \/ \E g \in Groups : \E m \in CallIds(g) : AddMessageAfterJudge(g, m)
    \/ \E g \in Groups : \E j \in TaskIds(g) : \E w \in PipelineWaits :
          JudgeComplete(g, j, w)
    \/ \E g \in Groups : \E t \in TaskIds(g) : \E started \in BOOLEAN :
          TaskCancelled(g, t, started)
    \/ \E g \in Groups : \E t \in TaskIds(g) : \E db_ok \in BOOLEAN :
          PipelineTimerFire(g, t, db_ok)
    \/ \E g \in Groups : \E t \in TaskIds(g) : \E db_ok \in BOOLEAN :
          PipelineTimerLocked(g, t, db_ok)
    \/ \E g \in Groups : \E t \in TaskIds(g) : CleanupLocked(g, t)
    \/ \E g \in Groups : \E r \in RunIds : PipelineFailed(g, r)
    \/ \E g \in Groups : \E r \in RunIds : \E resp \in PipelineJudgments :
          PipelineJudgeReturn(g, r, resp)

\* The whole program: messages arrive, the aggregator runs, and every block it
\* hands over is judged by _process_response_block.
PipelineSpec == Init /\ [][NextPipeline]_vars

\* ----------------------------------------------------------------- delivery
\* The aggregator with _process_response_block as its callback, followed
\* through the replies: the block judge plans one or two replies, and
\* send_group_msg and save_message succeed or raise.

\* the judgments that plan replies and carry no feedback flag
DeliveryJudgments ==
    {resp \in JudgeResponses :
        /\ resp.kind = "json"
        /\ resp.data.keys = JudgeKeys
        /\ resp.data.should_reply
        /\ resp.data.reply_count = 1
        /\ resp.data.replies # <<>>
        /\ ~resp.data.user_complaining_too_much
        /\ ~resp.data.user_asking_to_speak}

\* judge_block returns its plans to run r and the first reply is generated
DeliveryJudgeReturn(r, resp) ==
    /\ runs[r].pc = "judge"
    /\ \E out \in {judge_block(_silence_states, runs[r].group_id, resp)} :
          /\ runs' = [runs EXCEPT ![r] = AfterJudge(runs[r], out.result)]
          /\ _silence_states' = out.states
    /\ UNCHANGED <<set_call, judged, aggregator_vars>>

\* faulty variant: a failed send is skipped and the loop goes on
DeliverySendReturnGoesOn(g, r, ok) ==
    /\ runs[r].group_id = g
    /\ SendReturn(r, TRUE)

\* send_group_msg returns, or raises: the exception leaves the loop and the
\* `async with` of the session (which closes the session), and the callback
\* is in its `except Exception` with nothing further called
DeliverySendReturn(g, r, ok) ==
    /\ runs[r].group_id = g
    /\ IF ok
       THEN SendReturn(r, TRUE)
       ELSE /\ runs[r].pc = "send"
            /\ ReplyStep(r, [runs[r] EXCEPT !.pc = "failed"])

\* the `except Exception` of the callback has logged the failure and the
\* callback returns to _wait_and_process
DeliveryFailed(g, r) ==
    /\ runs[r].group_id = g
    /\ runs[r].pc = "failed"
    /\ RunReturn(g, r, _silence_states, NoAnswer)

\* save_message and commit return, or raise (logged by the inner `except
\* Exception`): after the last plan the callback returns to _wait_and_process
DeliverySaveReturn(g, r, ok) ==
    /\ runs[r].group_id = g
    /\ runs[r].pc = "save"
    /\ IF runs[r].i < Len(runs[r].replies)
       THEN SaveReturn(r)
       ELSE RunReturn(g, r, _silence_states, NoAnswer)

\* asyncio.sleep returns and the task reaches the first `async with lock`;
\* the callback it may enter gets its names and its context
DeliveryTimerFire(g, t) ==
    /\ tasks[g][t].kind = "wait"
    /\ tasks[g][t].st = "sleeping"
    /\ ~tasks[g][t].cancel
    /\ LET s == Local(g)
       IN  IF LockFree(s)
           THEN Handover(g, FireBody(s, t), TRUE)
           ELSE Commit(g, [s EXCEPT !.ts[t].st = "lockwait", !.ts[t].wait = 0,
                                    !.lw = Append(@, TaskH(t))])

\* the messages of this specification all come from one group (the groups
\* do not share state, and a callback belongs to one group)
DeliveryGroup == 1

NextDelivery ==
    \/ AddMessageCall(DeliveryGroup)
    \/ \E m \in CallIds(DeliveryGroup) : AddMessageLocked(DeliveryGroup, m)
    \/ \E m \in CallIds(DeliveryGroup) : AddMessageAfterWait(DeliveryGroup, m)
    \/ \E m \in CallIds(DeliveryGroup) : AddMessageAfterJudge(DeliveryGroup, m)
    \/ \E j \in TaskIds(DeliveryGroup) : JudgeComplete(DeliveryGroup, j, NoWait)
    \/ \E t \in TaskIds(DeliveryGroup) : \E started \in BOOLEAN :
          TaskCancelled(DeliveryGroup, t, started)
    \/ \E t \in TaskIds(DeliveryGroup) : DeliveryTimerFire(DeliveryGroup, t)
    \/ \E t \in TaskIds(DeliveryGroup) : PipelineTimerLocked(DeliveryGroup, t, TRUE)
    \/ \E t \in TaskIds(DeliveryGroup) : CleanupLocked(DeliveryGroup, t)
    \/ \E r \in RunIds : \E resp \in DeliveryJudgments : DeliveryJudgeReturn(r, resp)
    \/ \E r \in RunIds : GenerateReturn(r)
    \/ \E r \in RunIds : \E ok \in BOOLEAN :
          DeliverySendReturn(DeliveryGroup, r, ok)
    \/ \E r \in RunIds : DeliveryFailed(DeliveryGroup, r)
    \/ \E r \in RunIds : \E ok \in BOOLEAN :
          DeliverySaveReturn(DeliveryGroup, r, ok)
    \/ \E r \in RunIds : SleepReturn(r)

DeliverySpec == Init /\ [][NextDelivery]_vars

\* -------------------------------------------------------- handle_group_chat
\* Strings are sequences of characters; Space is a whitespace character and
\* the two characters of BotName spell the bot's name.
Space == " "

BotName == <<"xiao", "zou">>

\* sub in s, for the strings of the program
Contains(s, sub) ==
    \E i \in 0..(Len(s) - Len(sub)) :
        \A k \in 1..Len(sub) : s[i + k] = sub[k]

\* s.strip(): s without its leading and trailing whitespace
RECURSIVE strip(_)
strip(s) ==
    IF s = <<>> THEN <<>>
    ELSE IF Head(s) = Space THEN strip(Tail(s))
    ELSE IF s[Len(s)] = Space THEN strip(SubSeq(s, 1, Len(s) - 1))
    ELSE s

\* seg_data.get(key, "")
Get(seg_data, key) == IF key \in DOMAIN seg_data THEN seg_data[key] ELSE <<>>

\* x or y, for strings
OrElse(x, y) == IF x # <<>> THEN x ELSE y

\* the text one message segment adds to message_content
SegmentText(segment, self_id) ==
    IF segment.type = "text" THEN Get(segment.data, "text")
    ELSE IF segment.type = "at"
    THEN IF Get(segment.data, "qq") = <<self_id>>
         THEN OrElse(Get(segment.data, "name"), BotName)
         ELSE <<"@">> \o OrElse(Get(segment.data, "name"),
                                Get(segment.data, "qq"))
    ELSE IF segment.type = "image" THEN <<"[image]">>
    ELSE IF segment.type = "record" THEN <<"[record]">>
    ELSE IF segment.type = "video" THEN <<"[video]">>
    ELSE IF segment.type = "file" THEN <<"[file]">>
    ELSE <<>>

\* the fallback loop over event.message
RECURSIVE ParseSegments(_, _)
ParseSegments(message, self_id) ==
    IF message = <<>>
    THEN [message_content |-> <<>>, is_bot_mentioned |-> FALSE]
    ELSE LET rest == ParseSegments(Tail(message), self_id)
             segment == Head(message)
         IN  [message_content |->
                  SegmentText(segment, self_id) \o rest.message_content,
              is_bot_mentioned |->
                  \/ /\ segment.type = "at"
                     /\ Get(segment.data, "qq") = <<self_id>>
                  \/ rest.is_bot_mentioned]

\* message_content and is_bot_mentioned as the handler extracts them: the raw
\* message when it is not empty, the segments otherwise
Extract(ev) ==
    IF ev.raw_message # <<>>
    THEN [message_content |-> ev.raw_message,
          is_bot_mentioned |-> Contains(ev.raw_message, BotName)]
    ELSE ParseSegments(ev.message, ev.self_id)

\* the handler returns without calling add_message
Skipped == [add_message |-> FALSE]

\* faulty variant: the bot's own messages are not skipped
handle_group_chatOwnMessages(ev) ==
    LET x == Extract(ev)
    IN  IF strip(x.message_content) = <<>> /\ ~x.is_bot_mentioned
        THEN Skipped
        ELSE [add_message |-> TRUE, group_id |-> ev.group_id]

\* handle_group_chat(bot, event) up to its call of add_message: the event is a
\* GroupMessageEvent, so it has a group_id
handle_group_chat(ev) ==
    IF ev.user_id = ev.self_id THEN Skipped
    ELSE LET x == Extract(ev)
         IN  IF strip(x.message_content) = <<>> /\ ~x.is_bot_mentioned
             THEN Skipped
             ELSE [add_message |-> TRUE, group_id |-> ev.group_id]

Seg(type, data) == [type |-> type, data |-> data]

\* the messages that are delivered, as raw text or as segments
Contents ==
    { [raw_message |-> <<"a">>, message |-> <<>>],
      [raw_message |-> <<Space>>, message |-> <<>>],
      [raw_message |-> <<"a">> \o BotName, message |-> <<>>],
      [raw_message |-> <<>>, message |-> <<>>],
      [raw_message |-> <<>>,
       message |-> <<Seg("at", [qq |-> <<"bot">>, name |-> <<Space>>])>>],
      [raw_message |-> <<>>,
       message |-> <<Seg("at", [qq |-> <<"alice">>])>>],
      [raw_message |-> <<>>, message |-> <<Seg("image", [file |-> <<"f">>])>>],
      [raw_message |-> <<>>,
       message |-> <<Seg("text", [text |-> <<Space>>]),
                     Seg("face", [id |-> <<"1">>])>>] }

\* the bot's own messages come back with its replies' text
OwnContents == { c \in Contents : c.raw_message \notin {<<>>, <<Space>>} }

EventsOf(g) ==
    { [group_id |-> g, user_id |-> "alice", self_id |-> "bot",
       raw_message |-> c.raw_message, message |-> c.message] : c \in Contents }
    \cup
    { [group_id |-> g, user_id |-> "bot", self_id |-> "bot",
       raw_message |-> c.raw_message, message |-> c.message] :
          c \in OwnContents }

\* the framework calls handle_group_chat with the event ev; an accepted event
\* enters add_message in the same step
HandleGroupChat(ev) ==
    LET g == ev.group_id
        out == handle_group_chat(ev)
    IN  /\ event' = ev
        /\ answer' = NoAnswer
        /\ IF out.add_message
           THEN /\ NumCalls < MaxMsgs
                /\ \E r \in {AddMessageEnter(Local(out.group_id))} :
                       CommitGroup(out.group_id, r)
           ELSE UNCHANGED <<blocks, blockObjs, tasks, lockHolder, lockWaiters,
                            reply_callback, calls, dispatches, callback_vars>>

\* events reach the groups in the order of the groups' numbers
Ingest ==
    \E g \in Groups :
        /\ IF g = 1 THEN TRUE ELSE calls[g - 1] # <<>>
        /\ \E ev \in EventsOf(g) : HandleGroupChat(ev)

NextIngest ==
    \/ Ingest
    \/ Internal({NoWait}, {FALSE})

IngestSpec == Init /\ [][NextIngest]_vars

\* ------------------------------------------------------------------ history
Range(q) == {q[i] : i \in 1..Len(q)}

\* the add_message calls of g that got the lock and appended their message
NumAdmitted(g) == Cardinality({m \in CallIds(g) : calls[g][m].pc # "lockwait"})

\* how many callback invocations of g were handed message m
TimesDispatched(g, m) ==
    Cardinality({i \in 1..Len(dispatches[g]) : m \in Range(dispatches[g][i].msgs)})

\* the newest message of g any callback invocation has been handed, 0 if none
LastDispatched(g) ==
    LET all == UNION {Range(dispatches[g][i].msgs) : i \in 1..Len(dispatches[g])}
    IN  IF all = {} THEN 0 ELSE CHOOSE m \in all : \A k \in all : k <= m

\* <<lo, lo+1, ..., hi>>
Interval(lo, hi) == [i \in 1..(hi - lo + 1) |-> lo + i - 1]

\* a wait timer that is scheduled, has not fired and is not cancelled
PendingTimer(g, t) ==
    /\ tasks[g][t].kind = "wait"
    /\ tasks[g][t].st \in {"sleeping", "lockwait"}
    /\ ~tasks[g][t].cancel

\* this step hands a block of g to the reply callback
DispatchStep(g) == Len(dispatches'[g]) > Len(dispatches[g])
NewDispatch(g) == dispatches'[g][Len(dispatches'[g])]

\* this step is the cleanup of task t: clear() of its processing_block
CleanupStep(g, t) ==
    /\ t \in TaskIds(g)
    /\ tasks[g][t].st \in {"callback", "cleanupwait"}
    /\ ~tasks[g][t].cancel
    /\ tasks'[g][t].st = "done"

\* ------------------------------------------------------------------- claims

\* C1: a run of add_message calls of one group, each admitted before the
\* wait timer of the previous one fired, is dispatched exactly once: every
\* callback invocation is handed all messages admitted since the previous
\* invocation, in arrival order, none of them for a second time, and in the
\* end every message that arrived has been handed over exactly once.
C1_Covers ==
    \A g \in Groups :
        DispatchStep(g) =>
            /\ Len(dispatches'[g]) = Len(dispatches[g]) + 1
            /\ LastDispatched(g) < NumAdmitted(g)
            /\ NewDispatch(g).msgs = Interval(LastDispatched(g) + 1, NumAdmitted(g))
AllDispatchedOnce ==
    \A g \in Groups : \A m \in CallIds(g) : TimesDispatched(g, m) = 1
C1_RunDispatchedOnce == [][C1_Covers]_vars /\ <>[]AllDispatchedOnce
C1_Witness ==
    \E g \in Groups : \E i \in 1..Len(dispatches[g]) :
        /\ dispatches[g][i].msgs = <<1, 2>>
        /\ Len(dispatches[g]) = 1
        /\ \A t \in TaskIds(g) : Done(tasks[g], t)

\* C2: whenever a group's latest add_message is not followed by another
\* one, the block it joined is handed to the callback, exactly once: again
\* and again every group's latest message has been dispatched, and no
\* message is ever in two callback invocations.
C2_LatestDispatched ==
    \A g \in Groups :
        Len(calls[g]) = 0 \/ TimesDispatched(g, Len(calls[g])) = 1
C2_NotTwice ==
    \A g \in Groups : \A m \in CallIds(g) : TimesDispatched(g, m) <= 1
C2_FinalizedOnce == []<>C2_LatestDispatched /\ []C2_NotTwice
C2_Witness ==
    \E g \in Groups :
        /\ Len(calls[g]) = 1
        /\ Len(dispatches[g]) = 1
        /\ dispatches[g][1].msgs = <<1>>
        /\ tasks[g][dispatches[g][1].task].st = "done"

\* C3: an add_message that finds the current block processing leaves that
\* block as it is, installs a new block whose only message is the new one,
\* and the message is dispatched later: again and again every message that
\* started a block this way has been handed to the callback, once.
C3_Admits(g, m) ==
    /\ m \in 1..Len(calls'[g])
    /\ calls'[g][m].pc # "lockwait"
    /\ m \in CallIds(g) => calls[g][m].pc = "lockwait"
C3_NewBlock ==
    \A g \in Groups : \A m \in 1..MaxMsgs :
        (C3_Admits(g, m) /\ blocks[g] # None /\ blockObjs[g][blocks[g]].is_processing)
        =>  /\ blocks'[g] # blocks[g]
            /\ blocks'[g] \notin BlockIds(g)
            /\ blockObjs'[g][blocks[g]] = blockObjs[g][blocks[g]]
            /\ blockObjs'[g][blocks'[g]].messages = <<m>>
            /\ ~blockObjs'[g][blocks'[g]].is_processing
C3_FreshDispatched ==
    \A g \in Groups : \A m \in CallIds(g) :
        calls[g][m].fresh => TimesDispatched(g, m) = 1
C3_NotLost == [][C3_NewBlock]_vars /\ []<>C3_FreshDispatched
C3_Witness ==
    \E g \in Groups : \E i \in 1..Len(dispatches[g]) :
        LET d == dispatches[g][i]
        IN  /\ calls[g][Head(d.msgs)].fresh
            /\ tasks[g][dispatches[g][1].task].st = "callback"

\* C4: no block is handed to the callback twice: a callback invocation is
\* never made for a block that is already processing, and no message is in
\* two invocations.
C4_NoRefinalize ==
    \A g \in Groups :
        DispatchStep(g) =>
            /\ NewDispatch(g).block \in BlockIds(g)
            /\ ~blockObjs[g][NewDispatch(g).block].is_processing
            /\ \A i \in 1..Len(dispatches[g]) :
                  Range(dispatches[g][i].msgs) \cap Range(NewDispatch(g).msgs) = {}
C4_AtMostOnce == [][C4_NoRefinalize]_vars
C4_Witness ==
    \E g \in Groups :
        /\ Len(dispatches[g]) = 2
        /\ tasks[g][dispatches[g][1].task].st = "callback"
        /\ tasks[g][dispatches[g][2].task].st = "callback"
        /\ \E t \in TaskIds(g) : PendingTimer(g, t)

\* C5: the messages of a block stay in arrival order: a block that is not
\* processing only ever grows at its end, and every block and every
\* callback invocation holds its messages in the order of the calls.
Increasing(q) == \A i \in 1..Len(q) : \A k \in 1..Len(q) : i < k => q[i] < q[k]
IsPrefix(p, q) == Len(p) <= Len(q) /\ \A i \in 1..Len(p) : p[i] = q[i]
C5_Ordered ==
    \A g \in Groups :
        /\ \A b \in BlockIds(g) : Increasing(blockObjs[g][b].messages)
        /\ \A i \in 1..Len(dispatches[g]) : Increasing(dispatches[g][i].msgs)
C5_OnlyAppends ==
    \A g \in Groups : \A b \in BlockIds(g) :
        ~blockObjs[g][b].is_processing
        => IsPrefix(blockObjs[g][b].messages, blockObjs'[g][b].messages)
C5_ArrivalOrder == []C5_Ordered /\ [][C5_OnlyAppends]_vars
C5_Witness ==
    \E g \in Groups : \E i \in 1..Len(dispatches[g]) :
        /\ dispatches[g][i].msgs = <<2, 3>>
        /\ \E m \in CallIds(g) : calls[g][m].fresh

\* C6: a block never has two pending wait timers.
TimersOf(g, b) == {t \in TaskIds(g) : PendingTimer(g, t) /\ tasks[g][t].block = b}
C6_OneTimer ==
    \A g \in Groups : \A b \in BlockIds(g) : Cardinality(TimersOf(g, b)) <= 1
C6_Witness ==
    \E g \in Groups : \E b \in BlockIds(g) : \E j \in TaskIds(g) :
        /\ tasks[g][j].kind = "judge"
        /\ tasks[g][j].block = b
        /\ tasks[g][j].cancel
        /\ Done(tasks[g], j)
        /\ Cardinality(TimersOf(g, b)) = 1
        /\ ~blockObjs[g][b].is_processing

\* C7: the cleanup of a finalized block leaves a newer current block of the
\* group, its wait timer and its oracle call as they are.
C7_TaskUntouched(g, t) == t # None => tasks'[g][t] = tasks[g][t]
C7_Frame ==
    \A g \in Groups : \A t \in 1..(2 * MaxMsgs) :
        (CleanupStep(g, t) /\ blocks[g] # tasks[g][t].pb)
        =>  LET cur == blockObjs[g][blocks[g]]
            IN  /\ blocks'[g] = blocks[g]
                /\ blockObjs'[g][blocks[g]] = cur
                /\ C7_TaskUntouched(g, cur.wait_task)
                /\ C7_TaskUntouched(g, cur.judge_wait_task)
C7_NewerBlockUntouched == [][C7_Frame]_vars
C7_Witness ==
    \E g \in Groups : \E t \in TaskIds(g) :
        /\ tasks[g][t].kind = "wait"
        /\ Done(tasks[g], t)
        /\ tasks[g][t].pb # None
        /\ tasks[g][t].pb # blocks[g]
        /\ blockObjs[g][tasks[g][t].pb].messages = <<>>
        /\ blockObjs[g][blocks[g]].messages # <<>>
        /\ blockObjs[g][blocks[g]].judge_wait_task # None
        /\ ~Done(tasks[g], blockObjs[g][blocks[g]].judge_wait_task)

\* C8: with the oracle unreachable, every oracle call that ends leaves its
\* block with a newly scheduled wait timer of the 2 second fallback, and no
\* block hangs: again and again every message that arrived has been
\* dispatched.
JudgeEnds(g, j) ==
    /\ j \in TaskIds(g)
    /\ tasks[g][j].kind = "judge"
    /\ tasks[g][j].st = "calling"
    /\ ~tasks[g][j].cancel
    /\ tasks'[g][j].st = "done"
C8_Schedules ==
    \A g \in Groups : \A j \in 1..(2 * MaxMsgs) :
        JudgeEnds(g, j) =>
            LET t == blockObjs'[g][tasks[g][j].block].wait_task
            IN  /\ t \notin TaskIds(g)
                /\ t \in 1..Len(tasks'[g])
                /\ tasks'[g][t].kind = "wait"
                /\ tasks'[g][t].st = "sleeping"
                /\ ~tasks'[g][t].cancel
                /\ tasks'[g][t].wait = ErrorWait
C8_NothingPending ==
    \A g \in Groups : \A m \in CallIds(g) : TimesDispatched(g, m) >= 1
C8_Progress == [][C8_Schedules]_vars /\ []<>C8_NothingPending
C8_Witness ==
    \E g \in Groups : \E t \in TaskIds(g) :
        /\ PendingTimer(g, t)
        /\ tasks[g][t].wait = ErrorWait
        /\ Len(dispatches[g]) >= 1

\* C9: add_message never raises: no invocation ends with an exception, and
\* an invocation that returns has its message in the block it worked on.
C9_NoRaise == \A g \in Groups : \A m \in CallIds(g) : calls[g][m].pc # "raised"
C9_Returns(g, m) ==
    /\ m \in 1..Len(calls'[g])
    /\ calls'[g][m].pc = "done"
    /\ m \in CallIds(g) => calls[g][m].pc # "done"
C9_Appended ==
    \A g \in Groups : \A m \in 1..MaxMsgs :
        C9_Returns(g, m) =>
            LET b == blockObjs'[g][calls'[g][m].block]
            IN  b.messages # <<>> /\ b.messages[Len(b.messages)] = m
C9_NeverRaises == []C9_NoRaise /\ [][C9_Appended]_vars
C9_Witness ==
    \E g \in Groups : \E m \in CallIds(g) :
        /\ calls[g][m].pc = "await_judge"
        /\ calls[g][m].awaited = "cancelled"
        /\ Done(tasks[g], blockObjs[g][calls[g][m].block].judge_wait_task)
        /\ \E k \in CallIds(g) : k < m /\ calls[g][k].pc = "done"

\* C10: when the callback raised, the cleanup clears the block as after a
\* successful dispatch, and the block's messages are in no second callback
\* invocation (checked with a callback that raises every time).
C10_Cleared ==
    \A g \in Groups : \A t \in 1..(2 * MaxMsgs) :
        CleanupStep(g, t) => blockObjs'[g][tasks[g][t].pb] = ResponseBlock
C10_NoRetry ==
    \A g \in Groups : \A i \in 1..Len(dispatches[g]) :
        \A m \in Range(dispatches[g][i].msgs) : TimesDispatched(g, m) = 1
C10_ClearedAfterFailure == [][C10_Cleared]_vars /\ []C10_NoRetry
C10_Witness ==
    \E g \in Groups : \E t \in TaskIds(g) :
        /\ Done(tasks[g], t)
        /\ tasks[g][t].pb # None
        /\ blockObjs[g][tasks[g][t].pb] = ResponseBlock
        /\ \E i \in 1..Len(dispatches[g]) : dispatches[g][i].task = t
        /\ Len(dispatches[g]) = 2

\* C11: every block handed to the reply callback holds at least one message,
\* and a wait timer that gets the lock while the group's current block is
\* empty (or absent) only ends: no block becomes processing and the callback
\* is not invoked.
C11_NonEmpty ==
    \A g \in Groups : \A i \in 1..Len(dispatches[g]) :
        dispatches[g][i].msgs # <<>>
C11_FiresOnEmpty(g, t) ==
    /\ t \in TaskIds(g)
    /\ tasks[g][t].kind = "wait"
    /\ tasks[g][t].st \in {"sleeping", "lockwait"}
    /\ ~tasks[g][t].cancel
    /\ tasks'[g][t].st \notin {"sleeping", "lockwait"}
    /\ blocks[g] = None \/ blockObjs[g][blocks[g]].messages = <<>>
C11_NoOp ==
    \A g \in Groups : \A t \in 1..(2 * MaxMsgs + 1) :
        C11_FiresOnEmpty(g, t) =>
            /\ tasks'[g][t].st = "done"
            /\ tasks'[g][t].pb = None
            /\ dispatches'[g] = dispatches[g]
            /\ \A b \in BlockIds(g) : blockObjs'[g][b] = blockObjs[g][b]
            /\ \A b \in 1..Len(blockObjs'[g]) : b \notin BlockIds(g) =>
                    blockObjs'[g][b] = ResponseBlock
C11_NeverEmpty == []C11_NonEmpty /\ [][C11_NoOp]_vars
C11_Witness ==
    \E g \in Groups : \E t \in TaskIds(g) :
        /\ tasks[g][t].kind = "wait"
        /\ Done(tasks[g], t)
        /\ ~tasks[g][t].cancel
        /\ tasks[g][t].pb = None
        /\ blocks[g] # None
        /\ blockObjs[g][blocks[g]].messages = <<>>
        /\ Len(dispatches[g]) >= 1

\* C12: while the callback invoked with a block has not returned, the block
\* stays processing and holds exactly the messages it was handed over with:
\* no step of any add_message, oracle call, timer or cleanup changes them.
C12_AsHanded ==
    \A g \in Groups : \A i \in 1..Len(dispatches[g]) :
        LET d == dispatches[g][i]
        IN  tasks[g][d.task].st = "callback" =>
                /\ blockObjs[g][d.block].messages = d.msgs
                /\ blockObjs[g][d.block].is_processing
C12_Untouched ==
    \A g \in Groups : \A t \in 1..(2 * MaxMsgs) :
        (/\ t \in TaskIds(g)
         /\ tasks[g][t].st = "callback"
         /\ tasks'[g][t].st = "callback")
        => blockObjs'[g][tasks[g][t].pb] = blockObjs[g][tasks[g][t].pb]
C12_FrozenWhileDispatched == []C12_AsHanded /\ [][C12_Untouched]_vars
C12_Witness ==
    \E g \in Groups :
        /\ Len(dispatches[g]) = 2
        /\ tasks[g][dispatches[g][1].task].st = "callback"
        /\ Done(tasks[g], dispatches[g][2].task)
        /\ blocks[g] # dispatches[g][1].block
        /\ blockObjs[g][blocks[g]] = ResponseBlock

\* C13: groups do not block or alter each other: whoever waits for a lock
\* waits for the lock of its own group, held by or handed to an operation of
\* that group, and a step taken for one group leaves every other group's
\* block table, blocks, timers, oracle calls and lock as they are.
C13_HolderOf(g) ==
    {CallH(m) : m \in {k \in CallIds(g) :
        calls[g][k].pc \in {"lockwait", "await_wait", "await_judge"}}}
    \cup {TaskH(t) : t \in {k \in TaskIds(g) :
        tasks[g][k].st \in {"lockwait", "cleanupwait"}}}
C13_Waiting(g) ==
    {CallH(m) : m \in {k \in CallIds(g) : calls[g][k].pc = "lockwait"}}
    \cup {TaskH(t) : t \in {k \in TaskIds(g) :
        tasks[g][k].st \in {"lockwait", "cleanupwait"}}}
C13_OwnLock ==
    \A g \in Groups :
        /\ lockHolder[g] # NoHolder => lockHolder[g] \in C13_HolderOf(g)
        /\ C13_Waiting(g) \subseteq Range(lockWaiters[g]) \cup {lockHolder[g]}
        /\ lockWaiters[g] # <<>> => lockHolder[g] # NoHolder
C13_Changed(g) ==
    \/ blocks'[g] # blocks[g]
    \/ blockObjs'[g] # blockObjs[g]
    \/ tasks'[g] # tasks[g]
    \/ lockHolder'[g] # lockHolder[g]
    \/ lockWaiters'[g] # lockWaiters[g]
    \/ calls'[g] # calls[g]
    \/ dispatches'[g] # dispatches[g]
C13_OneGroup ==
    \A g1 \in Groups : \A g2 \in Groups :
        (C13_Changed(g1) /\ g2 # g1) => ~C13_Changed(g2)
C13_GroupsIndependent == []C13_OwnLock /\ [][C13_OneGroup]_vars
C13_Witness ==
    \E g1 \in Groups : \E g2 \in Groups :
        /\ g1 # g2
        /\ lockHolder[g1] # NoHolder
        /\ \E m \in CallIds(g1) : calls[g1][m].pc \in {"await_wait", "await_judge"}
        /\ lockHolder[g2] = NoHolder
        /\ \E m \in CallIds(g2) : calls[g2][m].pc = "done"
        /\ \E t \in TaskIds(g2) : PendingTimer(g2, t)

\* C14: the group lock is not held while the callback runs: a task in the
\* callback never owns the lock, and an add_message that gets the lock while
\* the current block is being processed installs a new block and returns in
\* that same step, with the lock released and the callback still running.
C14_LockNotHeld ==
    \A g \in Groups : \A t \in TaskIds(g) :
        tasks[g][t].st = "callback" =>
            /\ lockHolder[g] # TaskH(t)
            /\ TaskH(t) \notin Range(lockWaiters[g])
C14_ReturnsAtOnce ==
    \A g \in Groups : \A m \in 1..MaxMsgs :
        (/\ C3_Admits(g, m)
         /\ blocks[g] # None
         /\ blockObjs[g][blocks[g]].is_processing)
        =>  /\ calls'[g][m].pc = "done"
            /\ calls'[g][m].block = blocks'[g]
            /\ lockHolder'[g] # CallH(m)
            /\ \A t \in TaskIds(g) :
                  tasks[g][t].st = "callback" => tasks'[g][t] = tasks[g][t]
C14_CallbackOutsideLock == []C14_LockNotHeld /\ [][C14_ReturnsAtOnce]_vars
C14_Witness ==
    \E g \in Groups : \E t \in TaskIds(g) : \E m \in CallIds(g) :
        /\ tasks[g][t].st = "callback"
        /\ Len(dispatches[g]) = 1
        /\ calls[g][m].fresh
        /\ calls[g][m].pc = "done"
        /\ blocks[g] # tasks[g][t].pb
        /\ blockObjs[g][blocks[g]].messages = <<m>>
        /\ lockHolder[g] = NoHolder

\* ---------------------------------------------------------------------- C15
\* the oracle call that ended in the last step answered should_wait = true
C15_SaysWait ==
    /\ answer.resp.kind = "json"
    /\ answer.resp.has_sw
    /\ answer.resp.sw

\* the task that step created: the newest task of the group
NewestTask == tasks[answer.group][Len(tasks[answer.group])]

C15_Clamped(ws) == IF ws < 3 THEN 3 ELSE IF ws > 10 THEN 10 ELSE ws

LiveTimers(g, b) ==
    {t \in TaskIds(g) : /\ tasks[g][t].kind = "wait"
                        /\ tasks[g][t].block = b
                        /\ tasks[g][t].st # "done"}

\* the step that ended the oracle call left exactly one timer on its block:
\* the newest task, sleeping for w seconds
C16_OneTimerOf(w) ==
    /\ NewestTask.kind = "wait"
    /\ NewestTask.st = "sleeping"
    /\ NewestTask.wait = w
    /\ LiveTimers(answer.group, NewestTask.block) = {Len(tasks[answer.group])}
    /\ blockObjs[answer.group][NewestTask.block].wait_task = Len(tasks[answer.group])

\* C16: a malformed or unparseable oracle response schedules the timer for the
\* fixed 5 seconds and a failed oracle call schedules it for the fixed 2
\* seconds; either way exactly one timer is scheduled for the block.
C16_FixedFallback ==
    /\ answer.resp.kind \in {"nojson", "badjson"} => C16_OneTimerOf(5)
    /\ answer.resp.kind = "fail" => C16_OneTimerOf(2)

\* ---------------------------------------------------------------------- C17
\* the oracle call that ended in the last step answered should_wait = false
C17_SaysNoWait ==
    /\ answer.resp.kind = "json"
    /\ answer.resp.has_sw
    /\ ~answer.resp.sw

\* a 0 second timer is the wait_task of the block, which is the current one
C17_ZeroTimer ==
    C17_SaysNoWait =>
        /\ C16_OneTimerOf(0)
        /\ ~NewestTask.cancel
        /\ blocks[answer.group] = NewestTask.block

\* the timer runs next and gets the lock (no add_message call and no cleanup
\* of an earlier block has it): the callback is handed the block as it is
C17_FiresWithBlock ==
    (/\ C17_SaysNoWait
     /\ lockHolder[answer.group] = NoHolder
     /\ tasks'[answer.group][Len(tasks[answer.group])].st # "sleeping")
    =>  /\ DispatchStep(answer.group)
        /\ NewDispatch(answer.group).msgs =
               blockObjs[answer.group][NewestTask.block].messages
        /\ NewDispatch(answer.group).msgs # <<>>

\* a message is admitted first: the timer is cancelled like any other
C17_Cancellable ==
    (/\ C17_SaysNoWait
     /\ \E m \in 1..MaxMsgs : C3_Admits(answer.group, m))
    =>  /\ tasks'[answer.group][Len(tasks[answer.group])].cancel
        /\ ~DispatchStep(answer.group)

\* C17: when the oracle answers should_wait = false a timer of 0 seconds is
\* scheduled on the block as its wait_task; a message admitted before it runs
\* cancels it like any other timer, and when it runs with no message in
\* between the callback gets exactly the messages accumulated so far.
C17_NoWaitFinalizes ==
    []C17_ZeroTimer /\ [][C17_FiresWithBlock /\ C17_Cancellable]_vars

\* the answer "don't wait" came for a block of two messages, after an earlier
\* block of the group was dispatched
C17_Witness ==
    /\ C17_SaysNoWait
    /\ NewestTask.wait = 0
    /\ lockHolder[answer.group] = NoHolder
    /\ Len(blockObjs[answer.group][NewestTask.block].messages) = 2
    /\ Len(dispatches[answer.group]) = 1

\* ---------------------------------------------------------------------- C18
\* a group that has no entry reads as not silent
C18_DefaultFalse ==
    \A g \in Groups :
        g \notin DOMAIN _silence_states => ~is_silent(_silence_states, g)

\* a step that calls set_silent(g, v) leaves is_silent(g) = v and the other
\* groups as they were; a step without a call changes no group
C18_LastWrite ==
    \A g \in Groups :
        is_silent(_silence_states', g) =
            IF set_call'.group_id = g THEN set_call'.silent
            ELSE is_silent(_silence_states, g)

\* C18: is_silent(g) is false for a group never set, and otherwise the value
\* of the latest set_silent(g, v) for that g; set_silent on one group never
\* changes is_silent of another.
C18_LastWriteWins == []C18_DefaultFalse /\ [][C18_LastWrite]_vars

\* set_silent(1, False) was just called while group 2 is silent
C18_Witness ==
    /\ set_call = [group_id |-> 1, silent |-> FALSE]
    /\ ~is_silent(_silence_states, 1)
    /\ is_silent(_silence_states, 2)

\* ---------------------------------------------------------------------- C19
\* the judge_block call of run r returns in this step
JudgeCompletes(r) ==
    /\ r \in RunIds
    /\ judged'.run = r

\* C19 as stated: after a block judgment completes for group G, G is silent
\* if the result flags user_complaining_too_much, G is not silent if it flags
\* user_asking_to_speak, and G's flag is what it was if it flags neither.
C19_AsStated ==
    [][\A r \in 1..MaxBlocks :
          JudgeCompletes(r) =>
              LET G == runs[r].group_id
                  result == judged'.result
              IN  /\ result.user_complaining_too_much =>
                         is_silent(_silence_states', G)
                  /\ result.user_asking_to_speak =>
                         ~is_silent(_silence_states', G)
                  /\ (~result.user_complaining_too_much
                        /\ ~result.user_asking_to_speak) =>
                         is_silent(_silence_states', G) = is_silent(_silence_states, G)]_vars

\* C19, amended: after a block judgment completes for group G, G is silent if
\* the result flags user_complaining_too_much, G is not silent if it flags
\* user_asking_to_speak and not user_complaining_too_much, and G's flag is
\* what it was if it flags neither.
C19_ComplaintFirst ==
    [][\A r \in 1..MaxBlocks :
          JudgeCompletes(r) =>
              LET G == runs[r].group_id
                  result == judged'.result
              IN  /\ result.user_complaining_too_much =>
                         is_silent(_silence_states', G)
                  /\ (result.user_asking_to_speak
                        /\ ~result.user_complaining_too_much) =>
                         ~is_silent(_silence_states', G)
                  /\ (~result.user_complaining_too_much
                        /\ ~result.user_asking_to_speak) =>
                         is_silent(_silence_states', G) = is_silent(_silence_states, G)]_vars

\* a judgment that flags user_asking_to_speak only has just completed for a
\* group, which is not silent now, while the other group is silent
C19_Witness ==
    /\ judged.run # 0
    /\ judged.result.user_asking_to_speak
    /\ ~judged.result.user_complaining_too_much
    /\ set_call = [group_id |-> 2, silent |-> FALSE]
    /\ 2 \in DOMAIN _silence_states
    /\ ~is_silent(_silence_states, 2)
    /\ is_silent(_silence_states, 1)

\* ---------------------------------------------------------------------- C20
\* the calls made for one plan, in the order the claim gives
PlanEvents(plan) ==
    <<Event("generate", plan), Event("send", plan), Event("save", plan)>>

\* the calls of a callback that has handled the first n plans of replies
RECURSIVE PlannedLog(_, _)
PlannedLog(replies, n) ==
    IF n = 0 THEN <<Event("judge", 0)>>
    ELSE PlannedLog(replies, n - 1) \o PlanEvents(replies[n])

\* the judgment recommends replying: should_reply with a reply_count that is
\* not zero
Recommends(result) == result.should_reply /\ result.reply_count # 0

\* a callback that has not returned has called the block judge once, at the
\* start, and then generate, send and save for plan after plan
C20_InOrder ==
    \A r \in RunIds :
        LET run == runs[r]
            made == CASE run.pc = "judge" -> 0
                      [] run.pc = "generate" -> 1
                      [] run.pc = "send" -> 2
                      [] OTHER -> 3
        IN  run.pc \notin {"done", "failed"} =>
                /\ run.pc = "judge" <=> run.i = 0
                /\ run.i <= Len(run.replies)
                /\ run.pc = "sleep" => run.i < Len(run.replies)
                /\ run.log =
                       IF run.i = 0 THEN PlannedLog(run.replies, 0)
                       ELSE PlannedLog(run.replies, run.i - 1)
                            \o SubSeq(PlanEvents(run.replies[run.i]), 1, made)

\* a block is handed over: the callback returns at once (an empty block, or
\* the context could not be fetched) or has called the block judge
C20_Handed ==
    Len(runs') > Len(runs) =>
        \/ runs'[Len(runs')].pc \in {"done", "failed"}
        \/ runs'[Len(runs')].log = <<Event("judge", 0)>>

\* the judgment arrives: its plans are taken up when it recommends replying,
\* otherwise the callback returns with the judge call as its only call
C20_Judged ==
    \A r \in 1..MaxBlocks :
        JudgeCompletes(r) =>
            /\ runs[r].log = <<Event("judge", 0)>>
            /\ IF Recommends(judged'.result) /\ judged'.result.replies # <<>>
               THEN /\ runs'[r].replies = judged'.result.replies
                    /\ runs'[r].log = <<Event("judge", 0),
                                        Event("generate", judged'.result.replies[1])>>
               ELSE runs'[r] = Returned("done")

\* the callback returns after its loop: every plan was generated, sent and
\* saved; and a callback that has returned makes no further call
C20_Complete ==
    \A r \in 1..MaxBlocks :
        r \in RunIds =>
            /\ (runs[r].pc \notin {"judge", "done"} /\ runs'[r].pc = "done") =>
                   runs[r].log = PlannedLog(runs[r].replies, Len(runs[r].replies))
            /\ runs[r].pc \in {"done", "failed"} => runs'[r] = runs[r]

LiveCalls(g, b) ==
    {j \in TaskIds(g) : /\ tasks[g][j].kind = "judge"
                        /\ tasks[g][j].block = b
                        /\ tasks[g][j].st # "done"}

\* this step creates a task of the given kind for group g
Creates(g, kind) ==
    /\ Len(tasks'[g]) = Len(tasks[g]) + 1
    /\ tasks'[g][Len(tasks'[g])].kind = kind

\* the add_message call that issued oracle call j: calls take the lock in
\* call order and each issues one oracle call when it returns
IssuedBy(g, j) == Cardinality({k \in 1..j : tasks[g][k].kind = "judge"})

\* a block never has two oracle calls that have not terminated
C21_OneInFlight ==
    \A g \in Groups : \A b \in BlockIds(g) : Cardinality(LiveCalls(g, b)) <= 1

\* when an oracle call is issued for a block, every timer and every oracle
\* call created for that block before has terminated
C21_StartsAfterEnd ==
    \A g \in Groups :
        Creates(g, "judge") =>
            \A t \in TaskIds(g) :
                tasks[g][t].block = tasks'[g][Len(tasks'[g])].block
                => Done(tasks[g], t)

\* when a timer is scheduled, the oracle call that ends in this step is the
\* one the newest add_message of the block issued, nothing had cancelled it,
\* and the timer is for that block
C21_LatestSchedules ==
    \A g \in Groups :
        Creates(g, "wait") =>
            \E j \in TaskIds(g) :
                LET b == tasks[g][j].block
                IN  /\ JudgeEnds(g, j)
                    /\ tasks'[g][Len(tasks'[g])].block = b
                    /\ blockObjs[g][b].judge_wait_task = j
                    /\ blockObjs[g][b].messages # <<>>
                    /\ blockObjs[g][b].messages[Len(blockObjs[g][b].messages)]
                           = IssuedBy(g, j)
                    /\ calls[g][IssuedBy(g, j)].pc = "done"
                    /\ \A m \in CallIds(g) :
                          calls[g][m].block = b => m <= IssuedBy(g, j)

\* an oracle call that was cancelled ends without scheduling anything
C21_SupersededSilent ==
    \A g \in Groups : \A j \in TaskIds(g) :
        (/\ tasks[g][j].kind = "judge"
         /\ tasks[g][j].cancel
         /\ ~Done(tasks[g], j)
         /\ Done(tasks'[g], j))
        =>  /\ Len(tasks'[g]) = Len(tasks[g])
            /\ \A b \in BlockIds(g) :
                  blockObjs'[g][b].wait_task = blockObjs[g][b].wait_task

\* C21: a block has at most one Wait-Time Oracle call in flight; a new call is
\* issued only after the block's previous timer and previous call have
\* terminated; only the call issued by the newest add_message of the block
\* schedules a timer, and a call that was superseded schedules none.
C21_OneCallPerBlock ==
    /\ []C21_OneInFlight
    /\ [][C21_StartsAfterEnd /\ C21_LatestSchedules /\ C21_SupersededSilent]_vars

\* the call of message 1 was cancelled by message 2, whose call has scheduled
\* the timer of the block
C21_Witness ==
    \E g \in Groups : \E j1 \in TaskIds(g) : \E j2 \in TaskIds(g) :
        /\ tasks[g][j1].kind = "judge" /\ tasks[g][j2].kind = "judge"
        /\ tasks[g][j1].block = tasks[g][j2].block
        /\ IssuedBy(g, j1) = 1 /\ IssuedBy(g, j2) = 2
        /\ tasks[g][j1].cancel /\ Done(tasks[g], j1)
        /\ ~tasks[g][j2].cancel /\ Done(tasks[g], j2)
        /\ blockObjs[g][tasks[g][j2].block].messages = <<1, 2>>
        /\ \E t \in TaskIds(g) :
              /\ PendingTimer(g, t)
              /\ blockObjs[g][tasks[g][j2].block].wait_task = t

\* ---------------------------------------------------------------------- C22
\* cancel() was called on task t of group g and the task has not ended yet
CancelPending(g, t) ==
    /\ t \in TaskIds(g)
    /\ tasks[g][t].cancel
    /\ ~Done(tasks[g], t)

\* the next step of a cancelled task only ends it: no block of the group is
\* marked processing, cleared or given another wait_task, the block table is
\* as it was, the callback is not invoked and no task is created
C22_OnlyEnds ==
    \A g \in Groups : \A t \in 1..(2 * MaxMsgs) :
        (CancelPending(g, t) /\ tasks'[g][t] # tasks[g][t])
        =>  /\ tasks'[g][t] = [tasks[g][t] EXCEPT !.st = "done", !.wait = 0]
            /\ tasks'[g][t].pb = None
            /\ \A u \in TaskIds(g) : u # t => tasks'[g][u] = tasks[g][u]
            /\ Len(tasks'[g]) = Len(tasks[g])
            /\ blockObjs'[g] = blockObjs[g]
            /\ blocks'[g] = blocks[g]
            /\ dispatches'[g] = dispatches[g]

\* a task that has ended stays as it is
C22_EndedStays ==
    \A g \in Groups : \A t \in TaskIds(g) :
        Done(tasks[g], t) => tasks'[g][t] = tasks[g][t]

\* cancel() on no task, on a task that has ended or on a task that is being
\* cancelled already changes nothing
C22_Idempotent ==
    \A g \in Groups : \A t \in TaskIds(g) \cup {None} :
        (t = None \/ Done(tasks[g], t) \/ tasks[g][t].cancel)
        => Cancel(tasks[g], t) = tasks[g]

\* C22: a cancelled timer or oracle call has no further effect: it marks no
\* block processing, does not invoke the callback, clears no block and writes
\* no wait_task; cancelling a task that has ended or is cancelled already
\* changes nothing.
C22_CancelledIsInert ==
    []C22_Idempotent /\ [][C22_OnlyEnds /\ C22_EndedStays]_vars

\* a timer and an oracle call of the group were cancelled and have ended, and
\* a later timer has handed the block with all three messages to the callback
C22_Witness ==
    \E g \in Groups : \E t \in TaskIds(g) : \E j \in TaskIds(g) :
        /\ tasks[g][t].kind = "wait" /\ tasks[g][j].kind = "judge"
        /\ tasks[g][t].cancel /\ Done(tasks[g], t)
        /\ tasks[g][j].cancel /\ Done(tasks[g], j)
        /\ Len(dispatches[g]) = 1
        /\ dispatches[g][1].msgs = <<1, 2, 3>>
        /\ dispatches[g][1].task # t

\* ---------------------------------------------------------------------- C23
\* when add_message call m of group g returns, the group's current block is
\* the one the call worked on; it is not processing and ends with message m,
\* no timer of the group is sleeping or queued for the lock, and the block's
\* only oracle call in flight is the task this step created, stored in
\* judge_wait_task
C23_Reset ==
    \A g \in Groups : \A m \in 1..MaxMsgs :
        C9_Returns(g, m) =>
            LET b == blocks'[g]
                blk == blockObjs'[g][b]
                j == Len(tasks'[g])
            IN  /\ b = calls'[g][m].block
                /\ ~blk.is_processing
                /\ blk.messages # <<>>
                /\ blk.messages[Len(blk.messages)] = m
                /\ \A t \in 1..Len(tasks'[g]) :
                      tasks'[g][t].kind = "wait"
                      => tasks'[g][t].st \notin {"sleeping", "lockwait"}
                /\ blk.wait_task # None => tasks'[g][blk.wait_task].st = "done"
                /\ Creates(g, "judge")
                /\ tasks'[g][j] = NewJudgeTask(b)
                /\ blk.judge_wait_task = j
                /\ \A k \in 1..Len(tasks'[g]) :
                      (tasks'[g][k].kind = "judge" /\ tasks'[g][k].st # "done"
                         /\ tasks'[g][k].block = b)
                      => k = j

\* C23: every add_message resets the debounce: when it returns, the group's
\* current block is not processing, has the new message as its last element,
\* has no pending timer (a pending one was cancelled and has ended) and has
\* exactly one, newly issued, oracle call in flight.
C23_ResetsDebounce == [][C23_Reset]_vars

\* message 2 joined the block of message 1 and cancelled its timer; the call
\* has returned and its oracle call is in flight
C23_Witness ==
    \E g \in Groups : \E t \in TaskIds(g) :
        /\ Len(calls[g]) = 2
        /\ calls[g][2].pc = "done"
        /\ blockObjs[g][blocks[g]].messages = <<1, 2>>
        /\ blockObjs[g][blocks[g]].wait_task = t
        /\ tasks[g][t].cancel /\ Done(tasks[g], t)
        /\ LiveCalls(g, blocks[g]) = {Len(tasks[g])}
        /\ LiveTimers(g, blocks[g]) = {}

\* ---------------------------------------------------------------------- C24
\* this step is the cleanup of a task whose processing_block is still the
\* group's entry in _blocks
C24_CleansCurrent(g, t) ==
    /\ CleanupStep(g, t)
    /\ blocks[g] = tasks[g][t].pb

\* C24 as stated: after the callback returned for block B of group G and no
\* newer block was substituted, the block table holds no entry for G.
C24_AsStated ==
    [][\A g \in Groups : \A t \in 1..(2 * MaxMsgs) :
          C24_CleansCurrent(g, t) => blocks'[g] = None]_vars

\* C24, amended: after the callback returned for block B of group G and no
\* newer block was substituted, B is cleared and stays G's entry in the block
\* table: the group's current block is B, empty, not processing and without
\* timer or oracle call; an entry of the table is never removed.
C24_EntryKept ==
    [][\A g \in Groups :
          /\ \A t \in 1..(2 * MaxMsgs) :
                C24_CleansCurrent(g, t) =>
                    /\ blocks'[g] = blocks[g]
                    /\ blockObjs'[g][blocks'[g]] = ResponseBlock
          /\ blocks[g] # None => blocks'[g] # None]_vars

\* the cleanup after the first dispatch has run: the processed block is still
\* the group's entry and is empty
C24_Witness ==
    \E g \in Groups : \E t \in TaskIds(g) :
        /\ Len(dispatches[g]) = 1
        /\ dispatches[g][1].task = t
        /\ Done(tasks[g], t)
        /\ blocks[g] = tasks[g][t].pb
        /\ blockObjs[g][blocks[g]] = ResponseBlock

\* ---------------------------------------------------------------------- C25
\* this step writes block state of group g: a field of one of its blocks or
\* its entry in _blocks
WritesBlockState(g) ==
    \/ blockObjs'[g] # blockObjs[g]
    \/ blocks'[g] # blocks[g]

\* the step is taken by add_message call m, or by task t, of group g
ActsCall(g, m) ==
    /\ m \in 1..Len(calls'[g])
    /\ m \in CallIds(g) => calls'[g][m].pc # calls[g][m].pc
ActsTask(g, t) ==
    /\ t \in TaskIds(g)
    /\ tasks'[g][t].st # tasks[g][t].st

\* coroutine h writes inside its `async with lock`: it owns the lock when the
\* step begins, or the lock is free and it takes it in this step
UnderLock(g, h) ==
    \/ lockHolder[g] = h
    \/ lockHolder[g] = NoHolder /\ lockWaiters[g] = <<>>

\* the writer is an add_message call or a _wait_and_process task, the two
\* coroutines that enter `async with lock`, and it has the lock
WriterHasLock(g) ==
    \/ \E m \in 1..MaxMsgs : ActsCall(g, m) /\ UnderLock(g, CallH(m))
    \/ \E t \in 1..(2 * MaxMsgs) :
          /\ ActsTask(g, t)
          /\ tasks[g][t].kind = "wait"
          /\ UnderLock(g, TaskH(t))

\* the writer is a _judge_wait_time task, which takes no lock: all it writes
\* is the wait_task of its block, the handle of the timer it creates
UnlockedSchedule(g) ==
    \E j \in 1..(2 * MaxMsgs) :
        /\ ActsTask(g, j)
        /\ tasks[g][j].kind = "judge"
        /\ Creates(g, "wait")
        /\ blocks'[g] = blocks[g]
        /\ blockObjs'[g] =
              [blockObjs[g] EXCEPT ![tasks[g][j].block].wait_task = Len(tasks'[g])]

\* an oracle call never owns the lock and never queues for it
C25_JudgeLockless ==
    \A g \in Groups : \A j \in TaskIds(g) :
        tasks[g][j].kind = "judge" =>
            /\ lockHolder[g] # TaskH(j)
            /\ TaskH(j) \notin Range(lockWaiters[g])

\* C25 as stated: every write to a group's block state (a message appended,
\* is_processing, wait_task or judge_wait_task set, the table entry replaced,
\* the block cleared) is made while the writer holds the group's lock.
C25_AsStated ==
    [][\A g \in Groups : WritesBlockState(g) => WriterHasLock(g)]_vars

\* C25, amended: every write to a group's block state is made while the
\* writer holds the group's lock, except the wait_task handle stored when an
\* oracle call ends: _judge_wait_time stores it without taking the lock and
\* writes nothing else.
C25_LockedButSchedule ==
    /\ []C25_JudgeLockless
    /\ [][\A g \in Groups :
            WritesBlockState(g) => WriterHasLock(g) \/ UnlockedSchedule(g)]_vars

\* an oracle call has stored the timer of the current block while the lock
\* was handed to the cleanup of an earlier block
C25_Witness ==
    \E g \in Groups : \E t \in TaskIds(g) : \E u \in TaskIds(g) :
        /\ tasks[g][t].kind = "wait"
        /\ tasks[g][t].st = "sleeping"
        /\ ~tasks[g][t].cancel
        /\ blockObjs[g][blocks[g]].wait_task = t
        /\ tasks[g][u].st = "cleanupwait"
        /\ lockHolder[g] = TaskH(u)

\* ---------------------------------------------------------------------- C26
\* task u of group g can still run to schedule a timer or to finalize a block
Pending(ts, u) ==
    /\ ts[u].st \in {"calling", "sleeping", "lockwait"}
    /\ ~ts[u].cancel

\* the cleanup calls clear() on its processing_block b: b is left as a fresh
\* block, and the timer and the oracle call b referred to, and every other
\* task created for b, have ended or are being cancelled
C26_Clear ==
    \A g \in Groups : \A t \in 1..(2 * MaxMsgs + 1) :
        CleanupStep(g, t) =>
            LET b == tasks[g][t].pb
                old == blockObjs[g][b]
            IN  /\ blockObjs'[g][b].messages = <<>>
                /\ ~blockObjs'[g][b].is_processing
                /\ blockObjs'[g][b].wait_task = None
                /\ blockObjs'[g][b].judge_wait_task = None
                /\ old.wait_task # None => ~Pending(tasks'[g], old.wait_task)
                /\ old.judge_wait_task # None =>
                       ~Pending(tasks'[g], old.judge_wait_task)
                /\ \A u \in TaskIds(g) :
                      tasks[g][u].block = b => ~Pending(tasks'[g], u)

\* C26: ResponseBlock.clear leaves the block with no messages, is_processing
\* false, wait_task and judge_wait_task none, and cancels a timer or oracle
\* call of the block that was still pending: no timer or call scheduled for
\* the block before the clear can fire after it.  (Checked where a timer no
\* block refers to finalizes blocks whose own timer or call is still pending.)
C26_ClearCancels == [][C26_Clear]_vars

\* clear() has cancelled the pending timer of the block it emptied: the
\* timer has not ended yet and no add_message is waiting for it
C26_Witness ==
    \E g \in Groups : \E u \in TaskIds(g) :
        /\ tasks[g][u].kind = "wait"
        /\ tasks[g][u].st = "sleeping"
        /\ tasks[g][u].cancel
        /\ tasks[g][u].block # None
        /\ blockObjs[g][tasks[g][u].block] = ResponseBlock
        /\ \A m \in CallIds(g) : calls[g][m].pc \in {"done", "lockwait"}

\* ---------------------------------------------------------------------- C27
\* this step is the return of a judge_block call made for group g
C27_JudgmentOf(g) ==
    /\ \E r \in RunIds : runs[r].group_id = g /\ runs[r].pc = "judge"
    /\ Len(runs') < Len(runs)
    /\ answer'.group = g

\* the judgment that returned in this step parsed and carries a feedback flag
C27_Flagged ==
    /\ answer'.resp.kind = "json"
    /\ \/ from_dict(answer'.resp.data).user_complaining_too_much
       \/ from_dict(answer'.resp.data).user_asking_to_speak

\* the entry of group g in the silence register is not what it was
C27_Changed(g) ==
    \/ (g \in DOMAIN _silence_states') # (g \in DOMAIN _silence_states)
    \/ is_silent(_silence_states', g) # is_silent(_silence_states, g)

\* a step that changes the register is the return of a flagged judgment, and
\* the group judged is the only one whose entry changes
C27_OnlyFlagged ==
    _silence_states' # _silence_states =>
        \E g \in Groups :
            /\ C27_JudgmentOf(g)
            /\ C27_Flagged
            /\ \A h \in Groups : C27_Changed(h) => h = g

\* a step of the aggregator alone (an add_message step, an oracle completion,
\* a timer that fires or hands a block over, a cleanup, a cancellation) and
\* the return of a judgment whose oracle call failed or answered without JSON
\* leave the register as it is
C27_Frame ==
    (\/ answer' = NoAnswer
     \/ answer'.resp.kind \in {"fail", "nojson", "badjson"})
    => _silence_states' = _silence_states

\* C27: the silence register changes only through a judgment that returned a
\* feedback flag: add_message, oracle completions, timer firings, block
\* finalization and cleanup, and a judgment whose oracle call failed or whose
\* response could not be parsed, leave every group's flag unchanged.
C27_OnlyJudgmentsWrite == [][C27_OnlyFlagged /\ C27_Frame]_vars

\* group 1 was silenced by a judgment; the judgment of its second block has
\* just failed and the group is still silent
C27_Witness ==
    /\ answer.group = 1
    /\ answer.resp.kind = "fail"
    /\ Len(dispatches[1]) = 2
    /\ is_silent(_silence_states, 1)

\* ---------------------------------------------------------------------- C28
\* C28: the number of messages a block accumulates before it is finalized is
\* bounded, however fast messages arrive: a block is finalized before every
\* message of the run has joined it, so no block ever holds MaxMsgs messages.
C28_BoundedBlock ==
    \A g \in Groups : \A b \in BlockIds(g) :
        Len(blockObjs[g][b].messages) < MaxMsgs

\* ---------------------------------------------------------------------- C29
\* some character of the string is not whitespace
NonBlank(s) == \E i \in 1..Len(s) : s[i] # Space

\* the step is a call of handle_group_chat
Handled == event' # NoEvent

\* the step enters add_message for group g
EntersAddMessage(g) == Len(calls'[g]) = Len(calls[g]) + 1

\* the aggregator's state is what it was
AggregatorUntouched ==
    UNCHANGED <<blocks, blockObjs, tasks, lockHolder, lockWaiters, calls,
                dispatches>>

\* a call of the handler enters add_message for the event's group exactly when
\* the sender is not the bot and the content is non-blank or the bot is
\* mentioned; otherwise the aggregator is left alone
C29_Iff ==
    Handled =>
        LET ev == event'
            x == Extract(ev)
            passes == /\ ev.user_id # ev.self_id
                      /\ NonBlank(x.message_content) \/ x.is_bot_mentioned
        IN  /\ EntersAddMessage(ev.group_id) <=> passes
            /\ ~passes => AggregatorUntouched
            /\ \A g \in Groups \ {ev.group_id} : calls'[g] = calls[g]

\* no message enters a block, and no block is dispatched, in a step that
\* delivers a message of the bot
C29_BotKeptOut ==
    /\ \A g \in Groups :
           EntersAddMessage(g) =>
               /\ Handled
               /\ event'.group_id = g
               /\ event'.user_id # event'.self_id
    /\ (Handled /\ event'.user_id = event'.self_id) =>
           /\ AggregatorUntouched
           /\ \A g \in Groups : \A b \in BlockIds(g) :
                  blockObjs'[g][b].messages = blockObjs[g][b].messages

\* C29: handle_group_chat passes an event to add_message if and only if the
\* sender is not the bot itself and the extracted content is non-blank or the
\* bot is mentioned; a message sent by the bot never enters a block, so the
\* bot's own replies trigger no further dispatch.
C29_FilterAdmits == [][C29_Iff /\ C29_BotKeptOut]_vars

\* a block of the group was dispatched, and a message of the bot that carries
\* the bot's name has just been delivered to the handler while a block of an
\* accepted message that only mentions the bot is pending
C29_Witness ==
    /\ event # NoEvent
    /\ event.user_id = event.self_id
    /\ Extract(event).is_bot_mentioned
    /\ Len(dispatches[event.group_id]) >= 1
    /\ blocks[event.group_id] # None
    /\ blockObjs[event.group_id][blocks[event.group_id]].messages # <<>>

\* ---------------------------------------------------------------------- C30
\* the messages block b of g holds
Held(g, b) == Range(blockObjs[g][b].messages)

\* a message that add_message appended and no callback invocation was handed
\* is in the group's current block
C30_KeptUntilDispatched ==
    \A g \in Groups : \A m \in CallIds(g) :
        (calls[g][m].pc # "lockwait" /\ TimesDispatched(g, m) = 0) =>
            /\ blocks[g] # None
            /\ m \in Held(g, blocks[g])

\* no message is in two callback invocations, nor twice in one
C30_AtMostOneBlock ==
    \A g \in Groups :
        /\ \A m \in CallIds(g) : TimesDispatched(g, m) <= 1
        /\ \A i \in 1..Len(dispatches[g]) :
               \A j, k \in 1..Len(dispatches[g][i].msgs) :
                   j # k => dispatches[g][i].msgs[j] # dispatches[g][i].msgs[k]

\* a message leaves a block only after a callback invocation was handed it
C30_ClearedAfterDispatch ==
    \A g \in Groups : \A b \in BlockIds(g) :
        \A m \in Held(g, b) :
            m \notin Range(blockObjs'[g][b].messages) => TimesDispatched(g, m) = 1

\* every call of add_message has returned and its message was handed to the
\* callback in exactly one block
C30_AllHandedOver ==
    \A g \in Groups : \A m \in CallIds(g) :
        /\ calls[g][m].pc = "done"
        /\ TimesDispatched(g, m) = 1

\* C30: with a reply callback registered, every message accepted by
\* add_message is handed to the callback in exactly one block: no message is
\* in two dispatched blocks, no message is cleared or dropped before it was
\* dispatched, and once arrivals have stopped and the oracle calls have ended
\* every accepted message has been dispatched.
C30_ExactlyOneBlock ==
    /\ [](C30_AtMostOneBlock /\ C30_KeptUntilDispatched)
    /\ [][C30_ClearedAfterDispatch]_vars
    /\ <>[]C30_AllHandedOver

\* three messages of a group went out in two blocks, both of them cleared
\* since, and no message is left in any block
C30_Witness ==
    \E g \in Groups :
        /\ Len(calls[g]) = 3
        /\ Len(dispatches[g]) = 2
        /\ C30_AllHandedOver
        /\ \A b \in BlockIds(g) : Held(g, b) = {}
        /\ \A t \in TaskIds(g) : Done(tasks[g], t)

\* ---------------------------------------------------------------------- C31
\* an oracle call that is under way and was not cancelled
PendingJudge(g, t) ==
    /\ tasks[g][t].kind = "judge"
    /\ tasks[g][t].st = "calling"
    /\ ~tasks[g][t].cancel

\* the block a pending timer or oracle call was created for is the group's
\* table entry and is not processing
C31_PendingOnCurrent ==
    \A g \in Groups : \A t \in TaskIds(g) :
        (PendingTimer(g, t) \/ PendingJudge(g, t)) =>
            /\ blocks[g] = tasks[g][t].block
            /\ ~blockObjs[g][blocks[g]].is_processing

\* a step that marks a block processing is the firing of that block's own
\* timer, and the block handed to the callback is the one the timer was
\* scheduled for
C31_FiresOwnBlock ==
    \A g \in Groups :
        /\ \A b \in BlockIds(g) :
               (~blockObjs[g][b].is_processing /\ blockObjs'[g][b].is_processing)
               => /\ blockObjs[g][b].wait_task # None
                  /\ tasks[g][blockObjs[g][b].wait_task].block = b
                  /\ tasks'[g][blockObjs[g][b].wait_task].pb = b
                  /\ PendingTimer(g, blockObjs[g][b].wait_task)
        /\ DispatchStep(g) =>
               tasks[g][NewDispatch(g).task].block = NewDispatch(g).block

\* C31: a wait timer is looked up by group id, yet it only finalizes the
\* block it was scheduled for: while a timer or an oracle call is pending its
\* block is the group's current table entry and is not processing, so the
\* block a firing timer finds under the group id is its own.
C31_TimerFinalizesOwnBlock ==
    []C31_PendingOnCurrent /\ [][C31_FiresOwnBlock]_vars

\* the timer of the group's second block has fired and handed that block to
\* the callback while the callback of the first block has not returned
C31_Witness ==
    \E g \in Groups :
        /\ Len(dispatches[g]) = 2
        /\ dispatches[g][1].block # dispatches[g][2].block
        /\ tasks[g][dispatches[g][1].task].st = "callback"
        /\ tasks[g][dispatches[g][2].task].st = "callback"
        /\ tasks[g][dispatches[g][2].task].block = dispatches[g][2].block

\* ---------------------------------------------------------------------- C32
\* no block has a pending wait timer and an oracle call in flight together
C32_Exclusive ==
    \A g \in Groups : \A t, j \in TaskIds(g) :
        (PendingTimer(g, t) /\ PendingJudge(g, j)) =>
            tasks[g][t].block # tasks[g][j].block

\* a timer is created only by the step in which the oracle call of its block
\* ends, and an oracle call is issued only when the block's timer is over
C32_Handover ==
    \A g \in Groups : \A t \in 1..Len(tasks'[g]) :
        t \notin TaskIds(g) =>
            LET b == tasks'[g][t].block
            IN  IF tasks'[g][t].kind = "wait"
                THEN \E j \in TaskIds(g) :
                        /\ PendingJudge(g, j)
                        /\ tasks[g][j].block = b
                        /\ tasks'[g][j].st = "done"
                ELSE \A u \in TaskIds(g) :
                        (tasks[g][u].kind = "wait" /\ tasks[g][u].block = b)
                        => Done(tasks[g], u)

\* C32: a block never has a pending wait timer and an in-flight Wait-Time
\* Oracle call at the same time: the timer is created only when the oracle
\* call finishes, and add_message cancels and awaits the timer before it
\* issues the next oracle call.
C32_TimerXorCall == []C32_Exclusive /\ [][C32_Handover]_vars

\* add_message has cancelled and awaited a block's timer and issued the
\* block's next oracle call
C32_Witness ==
    \E g \in Groups : \E t, j \in TaskIds(g) :
        /\ tasks[g][t].kind = "wait"
        /\ tasks[g][t].cancel
        /\ Done(tasks[g], t)
        /\ t < j
        /\ PendingJudge(g, j)
        /\ tasks[g][j].block = tasks[g][t].block
        /\ Len(blockObjs[g][tasks[g][j].block].messages) = 2

\* ---------------------------------------------------------------------- C33
RECURSIVE Concat(_)
Concat(ds) == IF ds = <<>> THEN <<>> ELSE Head(ds).msgs \o Concat(Tail(ds))

\* the messages of a group's callback invocations, one invocation after the
\* other in the order the invocations started, are in arrival order, and the
\* blocks are handed over in the order they were created
C33_InArrivalOrder ==
    \A g \in Groups :
        /\ Increasing(Concat(dispatches[g]))
        /\ \A i, k \in 1..Len(dispatches[g]) :
               i < k => dispatches[g][i].block <= dispatches[g][k].block

\* a callback invocation is handed only messages that arrived after every
\* message handed over before
C33_LaterOnly ==
    \A g \in Groups :
        DispatchStep(g) =>
            \A m \in Range(NewDispatch(g).msgs) :
                \A i \in 1..Len(dispatches[g]) :
                    \A k \in Range(dispatches[g][i].msgs) : k < m

\* C33: for one group, blocks are handed to the reply callback in the order
\* they were created: the dispatched blocks, concatenated in the order the
\* dispatches started, are in the group's arrival order, so a message that
\* arrived later is never in an earlier dispatch than a message that arrived
\* before it.
C33_DispatchOrder == []C33_InArrivalOrder /\ [][C33_LaterOnly]_vars

\* two blocks of a group were handed over, the first with the first message
\* and the second, started while the first callback runs, with the two later
\* messages
C33_Witness ==
    \E g \in Groups :
        /\ Len(dispatches[g]) = 2
        /\ dispatches[g][1].msgs = <<1>>
        /\ dispatches[g][2].msgs = <<2, 3>>
        /\ dispatches[g][1].block < dispatches[g][2].block
        /\ tasks[g][dispatches[g][1].task].st = "callback"

\* ---------------------------------------------------------------------- C34
\* dispatch i of g is in flight: the callback was called and the block was
\* not yet cleared by the dispatching task
InFlight(g, i) == tasks[g][dispatches[g][i].task].st \in {"callback", "cleanupwait"}

\* two dispatches of a group that are in flight together hold different
\* blocks, each still holding the messages handed over, with no message in
\* common
C34_Apart ==
    \A g \in Groups : \A i, k \in 1..Len(dispatches[g]) :
        (i # k /\ InFlight(g, i) /\ InFlight(g, k)) =>
            /\ dispatches[g][i].block # dispatches[g][k].block
            /\ Range(dispatches[g][i].msgs) \cap Range(dispatches[g][k].msgs) = {}
            /\ blockObjs[g][dispatches[g][i].block].messages = dispatches[g][i].msgs
            /\ blockObjs[g][dispatches[g][i].block].is_processing

\* the cleanup of a dispatch clears the block of that dispatch and no other
C34_CleansOwn ==
    \A g \in Groups : \A i \in 1..Len(dispatches[g]) :
        CleanupStep(g, dispatches[g][i].task) =>
            /\ blockObjs'[g][dispatches[g][i].block] = ResponseBlock
            /\ \A b \in BlockIds(g) \ {dispatches[g][i].block} :
                   blockObjs'[g][b] = blockObjs[g][b]
            /\ \A k \in 1..Len(dispatches[g]) :
                   (k # i /\ InFlight(g, k)) =>
                       tasks'[g][dispatches[g][k].task] = tasks[g][dispatches[g][k].task]

\* C34: dispatches of one group are not serialized: a second block of the
\* group can be handed to the callback while the callback of the previous
\* block has not returned; two dispatches in flight together hold different
\* block instances with disjoint messages, and the cleanup of each clears
\* only its own block.
C34_ConcurrentDispatches == []C34_Apart /\ [][C34_CleansOwn]_vars

\* the second block of a group was handed over while the callback of the
\* first was running and has been cleaned up since; the first callback is
\* still running and its block still holds its messages
C34_Witness ==
    \E g \in Groups :
        /\ Len(dispatches[g]) = 2
        /\ tasks[g][dispatches[g][1].task].st = "callback"
        /\ Done(tasks[g], dispatches[g][2].task)
        /\ blockObjs[g][dispatches[g][2].block] = ResponseBlock
        /\ blockObjs[g][dispatches[g][1].block].messages = dispatches[g][1].msgs
        /\ blockObjs[g][dispatches[g][1].block].is_processing

\* ---------------------------------------------------------------------- C35
\* the step in which timer t of g, not cancelled, runs the first locked
\* section of _wait_and_process on a block that holds messages
FiresOnMessages(g, t) ==
    /\ tasks[g][t].kind = "wait"
    /\ tasks[g][t].st = "sleeping"
    /\ ~tasks[g][t].cancel
    /\ Done(tasks'[g], t)
    /\ blocks[g] # None
    /\ blockObjs[g][blocks[g]].messages # <<>>

\* without a callback a timer that fires on a block with messages takes the
\* block as its processing_block and clears it before it gives the event loop
\* a turn: the block is the table entry still, with a fresh block's fields,
\* and nothing is dispatched
C35_MarkedThenCleared ==
    \A g \in Groups : \A t \in TaskIds(g) :
        FiresOnMessages(g, t) =>
            LET b == blocks[g]
            IN  /\ tasks'[g][t].pb = b
                /\ Done(tasks'[g], t)
                /\ dispatches'[g] = dispatches[g]
                /\ blocks'[g] = b
                /\ blockObjs'[g][b] = ResponseBlock
                /\ lockHolder'[g] = NoHolder

\* the add_message that comes next starts the block anew: a message admitted
\* when the table entry is empty is the only message of its block
C35_StartsEmpty ==
    \A g \in Groups : \A m \in 1..MaxMsgs :
        (/\ C3_Admits(g, m)
         /\ blocks[g] # None
         /\ blockObjs[g][blocks[g]].messages = <<>>)
        => /\ blocks'[g] = blocks[g]
           /\ blockObjs'[g][blocks'[g]].messages = <<m>>

\* nothing is ever dispatched, no block is left marked processing, and the
\* group keeps one block
C35_NoDispatch ==
    \A g \in Groups :
        /\ dispatches[g] = <<>>
        /\ \A b \in BlockIds(g) : ~blockObjs[g][b].is_processing
        /\ \A t \in TaskIds(g) : tasks[g][t].st \notin {"cleanupwait", "callback"}
        /\ Len(blockObjs[g]) <= 1

\* C35: when no reply callback is registered and a wait timer fires on a
\* non-empty block, the block is marked is_processing and then cleared: its
\* messages are discarded without any dispatch, and the next add_message
\* starts an empty block.
C35_DiscardedWithoutCallback ==
    []C35_NoDispatch /\ [][C35_MarkedThenCleared /\ C35_StartsEmpty]_vars

\* a group's first message was discarded by its timer and the second message
\* then started the cleared block anew
C35_Witness ==
    \E g \in Groups :
        /\ Len(calls[g]) = 2
        /\ \E t \in TaskIds(g) :
               /\ tasks[g][t].kind = "wait"
               /\ tasks[g][t].pb # None
               /\ Done(tasks[g], t)
               /\ blockObjs[g][tasks[g][t].pb].messages = <<2>>
        /\ dispatches[g] = <<>>

\* ---------------------------------------------------------------------- C36
\* the oracle call of judge_block raised, or its answer holds no JSON object
\* that parses
FailedJudgments == {resp \in JudgeResponses : resp.kind # "json"}

\* the callback has made its judge_block call and nothing else
OnlyJudged(run) == run.log = <<Event("judge", 0)>>

\* when the oracle call of a run fails, judge_block returns the no-reply
\* result and touches no silence flag, and the callback returns normally, with
\* nothing generated or sent
C36_FailureIsNoReply ==
    \A r \in RunIds : \A resp \in FailedJudgments :
        JudgeReturn(r, resp) =>
            /\ judged'.run = r
            /\ ~judged'.result.should_reply
            /\ judged'.result.reply_count = 0
            /\ judged'.result.replies = <<>>
            /\ OnlyJudged(runs[r])
            /\ runs'[r] = Returned("done")
            /\ set_call' = NoCall
            /\ _silence_states' = _silence_states

\* a callback that has returned takes no further step
C36_ReturnedIsOver ==
    \A r \in RunIds :
        runs[r].pc \in {"done", "failed"} => runs'[r] = runs[r]

\* C36: if the Block Judgment Oracle call fails or its response cannot be
\* parsed, judge_block returns a no-reply result (should_reply false,
\* reply_count 0, no plans), so the dispatch generates and sends nothing and
\* returns normally.
C36_JudgeFailureNoReply == [][C36_FailureIsNoReply /\ C36_ReturnedIsOver]_vars

\* a judge_block call has just returned the no-reply result and its callback
\* has returned, while another callback is waiting for its judgment
C36_Witness ==
    /\ judged.run # 0
    /\ judged.result = no_reply
    /\ runs[judged.run] = Returned("done")
    /\ \E r \in RunIds : runs[r].pc = "judge"


\* the callback of `run` has made call `op` for its k-th reply plan
Made(run, op, k) ==
    \E n \in 1..Len(run.log) : run.log[n] = Event(op, run.replies[k])

\* the dispatch that run r of the delivery group belongs to
DispatchOf(r) ==
    CHOOSE d \in 1..Len(dispatches[DeliveryGroup]) :
        dispatches[DeliveryGroup][d].task = TaskOf(DeliveryGroup, r)

\* a send that raises ends the loop: the callback goes to its `except
\* Exception` with its calls so far as they were
C37_FailureEndsLoop ==
    \A r \in RunIds :
        DeliverySendReturn(DeliveryGroup, r, FALSE) =>
            /\ Len(runs') = Len(runs)
            /\ runs'[r] = [runs[r] EXCEPT !.pc = "failed"]

\* in a callback whose send of reply i raised, the replies before i were
\* sent, the send of reply i was called, and no later reply was generated or
\* sent; _wait_and_process still waits for it
C37_EarlierSentLaterNot ==
    \A r \in RunIds :
        runs[r].pc = "failed" =>
            /\ runs[r].i \in 1..Len(runs[r].replies)
            /\ Made(runs[r], "send", runs[r].i)
            /\ ~Made(runs[r], "save", runs[r].i)
            /\ \A k \in 1..Len(runs[r].replies) :
                  /\ k < runs[r].i => Made(runs[r], "send", k)
                  /\ k > runs[r].i => /\ ~Made(runs[r], "generate", k)
                                      /\ ~Made(runs[r], "send", k)
            /\ tasks[DeliveryGroup][TaskOf(DeliveryGroup, r)].st = "callback"

\* a callback whose send raised makes no further call: it stays as it is
\* until it returns, and its return takes _wait_and_process to its cleanup,
\* which clears the block when the lock is free
C37_ReturnsNormally ==
    \A r \in RunIds :
        runs[r].pc = "failed" =>
            IF DeliveryFailed(DeliveryGroup, r)
            THEN /\ Len(runs') = Len(runs) - 1
                 /\ tasks'[DeliveryGroup][TaskOf(DeliveryGroup, r)].st
                        \in {"done", "cleanupwait"}
                 /\ tasks'[DeliveryGroup][TaskOf(DeliveryGroup, r)].st = "done" =>
                        blockObjs'[DeliveryGroup]
                            [dispatches[DeliveryGroup][DispatchOf(r)].block]
                                = ResponseBlock
            ELSE \E q \in 1..Len(runs') : runs'[q] = runs[r]

\* the cleanup of a dispatch, whenever it gets the lock, clears its block
C37_BlockCleared ==
    \A d \in 1..Len(dispatches[DeliveryGroup]) :
        CleanupStep(DeliveryGroup, dispatches[DeliveryGroup][d].task) =>
            blockObjs'[DeliveryGroup][dispatches[DeliveryGroup][d].block]
                = ResponseBlock

\* a save that raises changes nothing: the callback sleeps and goes on when
\* plans are left, and returns when none is
C37_SaveFailureGoesOn ==
    \A r \in RunIds :
        /\ DeliverySaveReturn(DeliveryGroup, r, FALSE) =>
              IF runs[r].i < Len(runs[r].replies)
              THEN /\ Len(runs') = Len(runs)
                   /\ runs'[r] = [runs[r] EXCEPT !.pc = "sleep"]
              ELSE /\ Len(runs') = Len(runs) - 1
                   /\ \A k \in 1..Len(runs[r].replies) : Made(runs[r], "send", k)
        /\ SleepReturn(r) =>
              /\ runs'[r].pc = "generate"
              /\ runs'[r].i = runs[r].i + 1
              /\ Made(runs'[r], "generate", runs[r].i + 1)

\* C37: in _process_response_block, when the send of reply i of a plan of
\* several replies fails, replies i+1 and later are neither generated nor
\* sent, the replies before i stay sent, and the callback catches the failure
\* and returns normally, so that _wait_and_process goes on to its cleanup and
\* clears the block as after a successful dispatch; a failure to save a sent
\* reply does not stop the remaining replies.
C37_SendFailureStopsSaveFailureDoesNot ==
    /\ [](C37_EarlierSentLaterNot)
    /\ [][/\ C37_FailureEndsLoop
          /\ C37_ReturnsNormally
          /\ C37_BlockCleared
          /\ C37_SaveFailureGoesOn]_vars

\* two callbacks of the group have a failed send behind them, one at the
\* first of two replies and one at the second, after the first was sent and
\* saved
C37_Witness ==
    \E r, q \in RunIds :
        /\ runs[r].pc = "failed" /\ runs[q].pc = "failed"
        /\ Len(runs[r].replies) = 2 /\ Len(runs[q].replies) = 2
        /\ runs[r].i = 1
        /\ runs[q].i = 2
        /\ Made(runs[q], "save", 1)

====
